---- MODULE Spec2Model ----
(***************************************************************************)
(* Model of sketch-document-py: the schema-to-dataclass generator          *)
(* (sketch_file_format/scripts/utils.py and generate.py).                  *)
(*                                                                         *)
(* Python strings are sequences of one-character strings, so that the      *)
(* string operations of the code (strip, replace, upper, append) are       *)
(* computed and not assumed.  Python values (JSON scalars) are records     *)
(* [t, s]: the Python type and the text str() gives.  Every AST node is a  *)
(* record [k, id, val, elts].                                              *)
(***************************************************************************)
EXTENDS Integers, Sequences, FiniteSets, TLC

VARIABLES
    class_dict,         \* DataClassBuilder.class_dict: ordered id -> (schema, decl)
    import_statements,  \* DataClassBuilder.import_statements: ordered key -> import
    assigned,           \* every (id, decl) ever stored into class_dict, in order
    last_call,          \* the last translator call: its input and what it returned
    pc,                 \* position of generate(): idle/built/opened/done/failed
    schemas,            \* the Schemas bundle generate() was called with
    definitions,        \* generate.definitions (merged, ordered)
    all_classes,        \* generate.all_classes
    all_definitions,    \* generate.all_definitions (ordered)
    class_map,          \* the mapping build_class_map computes (ordered key -> id)
    module_ast,         \* the module build() returned
    outputs,            \* what each completed run of generate wrote to the path
    target_file,        \* the file at `path`: what it holds, and held before the run
    fetch,              \* a get_schemas call: position, temporary directory, reads
    decoded,            \* a call of the emitted to_object: obj, class_map, result
    disk,               \* the file system: path -> absent, a plain file or a zip
    sketch,             \* the SketchFile object the program holds, if any
    file_call           \* the last from_file / to_file call and how it ended

vars == <<class_dict, import_statements, assigned, last_call, pc, schemas,
          definitions, all_classes, all_definitions, class_map, module_ast,
          outputs, target_file, fetch, decoded, disk, sketch, file_call>>

builder_vars == <<class_dict, import_statements, assigned, last_call>>
generate_vars == <<pc, schemas, definitions, all_classes, all_definitions,
                   class_map, module_ast, outputs, target_file, fetch>>
\* the state of what runs apart from the generator
other_vars == <<decoded, disk, sketch, file_call>>
\* the state of sketch_file/file.py
file_vars == <<disk, sketch, file_call>>

-----------------------------------------------------------------------------
(* Bounds of the model.                                                    *)

\* number of add_schema_to_top_level_declaration calls on one builder
MaxCalls == 2
\* number of runs of generate on the same schemas
MaxRuns == 2
\* number of properties of a sampled class schema
MaxProps == 2
\* length of a sampled `required` list
MaxRequired == 2
\* length of a sampled `enum` list
MaxEnum == 2
\* number of definitions of the sampled document schema
MaxDefs == 2
\* number of from_file / to_file calls in one run
MaxFileCalls == 3
\* changes and reads of one held SketchFile
MaxEdits == 2

-----------------------------------------------------------------------------
(* Strings.                                                                *)

s_hash == "#"
s_underscore == "_"

\* str.upper() of one character
Upper(c) ==
    CASE c = "a" -> "A" [] c = "b" -> "B" [] c = "c" -> "C" [] c = "d" -> "D"
      [] c = "e" -> "E" [] c = "f" -> "F" [] c = "g" -> "G" [] c = "h" -> "H"
      [] c = "i" -> "I" [] c = "j" -> "J" [] c = "k" -> "K" [] c = "l" -> "L"
      [] c = "m" -> "M" [] c = "n" -> "N" [] c = "o" -> "O" [] c = "p" -> "P"
      [] c = "q" -> "Q" [] c = "r" -> "R" [] c = "s" -> "S" [] c = "t" -> "T"
      [] c = "u" -> "U" [] c = "v" -> "V" [] c = "w" -> "W" [] c = "x" -> "X"
      [] c = "y" -> "Y" [] c = "z" -> "Z" [] OTHER -> c

\* key[0].upper() + key[1:] (an empty key raises IndexError in the code;
\* no key of the model is empty)
UpperFirst(key) == <<Upper(Head(key))>> \o Tail(key)

SeqToSet(s) == { s[i] : i \in DOMAIN s }

\* s.startswith(p)
StartsWith(s, p) == Len(s) >= Len(p) /\ SubSeq(s, 1, Len(p)) = p

\* s.replace(old, '') for a non-empty old: leftmost non-overlapping matches
RECURSIVE Remove(_, _)
Remove(s, old) ==
    IF s = <<>> THEN <<>>
    ELSE IF StartsWith(s, old) THEN Remove(SubSeq(s, Len(old) + 1, Len(s)), old)
    ELSE <<Head(s)>> \o Remove(Tail(s), old)

\* keyword.kwlist
kwlist == {
    <<"F","a","l","s","e">>, <<"N","o","n","e">>, <<"T","r","u","e">>,
    <<"a","n","d">>, <<"a","s">>, <<"a","s","s","e","r","t">>,
    <<"a","s","y","n","c">>, <<"a","w","a","i","t">>, <<"b","r","e","a","k">>,
    <<"c","l","a","s","s">>, <<"c","o","n","t","i","n","u","e">>,
    <<"d","e","f">>, <<"d","e","l">>, <<"e","l","i","f">>, <<"e","l","s","e">>,
    <<"e","x","c","e","p","t">>, <<"f","i","n","a","l","l","y">>,
    <<"f","o","r">>, <<"f","r","o","m">>, <<"g","l","o","b","a","l">>,
    <<"i","f">>, <<"i","m","p","o","r","t">>, <<"i","n">>, <<"i","s">>,
    <<"l","a","m","b","d","a">>, <<"n","o","n","l","o","c","a","l">>,
    <<"n","o","t">>, <<"o","r">>, <<"p","a","s","s">>, <<"r","a","i","s","e">>,
    <<"r","e","t","u","r","n">>, <<"t","r","y">>, <<"w","h","i","l","e">>,
    <<"w","i","t","h">>, <<"y","i","e","l","d">> }

\* utils.generate_field_name
RECURSIVE StripUnderscores(_)
StripUnderscores(new_key) ==
    IF StartsWith(new_key, <<s_underscore>>)
    THEN StripUnderscores(Tail(new_key)) ELSE new_key

RECURSIVE AppendUnderscores(_, _)
AppendUnderscores(new_key, other_fields) ==
    IF new_key \in (SeqToSet(other_fields) \cup kwlist)
    THEN AppendUnderscores(new_key \o <<s_underscore>>, other_fields)
    ELSE new_key

\* a field name that avoids keywords but not the sibling names
generate_field_name_without_siblings(key, other_fields) ==
    AppendUnderscores(StripUnderscores(key), <<>>)

generate_field_name(key, other_fields) ==
    AppendUnderscores(StripUnderscores(key), other_fields)

\* utils.extract_id
extract_id(id_) == Remove(id_, <<s_hash>>)

s_definitions_path == <<"/","d","e","f","i","n","i","t","i","o","n","s","/">>

\* utils.extract_ref
extract_ref(ref) == Remove(Remove(ref, <<s_hash>>), s_definitions_path)

-----------------------------------------------------------------------------
(* String literals of the source, as character sequences.                  *)

L == [
    str |-> <<"s","t","r">>, float |-> <<"f","l","o","a","t">>,
    int |-> <<"i","n","t">>, bool |-> <<"b","o","o","l">>,
    None |-> <<"N","o","n","e">>, Any |-> <<"A","n","y">>,
    Literal |-> <<"L","i","t","e","r","a","l">>,
    Union |-> <<"U","n","i","o","n">>,
    Optional |-> <<"O","p","t","i","o","n","a","l">>,
    List |-> <<"L","i","s","t">>, Dict |-> <<"D","i","c","t">>,
    Type |-> <<"T","y","p","e">>,
    typing |-> <<"t","y","p","i","n","g">>,
    enum |-> <<"e","n","u","m">>, Enum |-> <<"E","n","u","m">>,
    dataclasses |-> <<"d","a","t","a","c","l","a","s","s","e","s">>,
    dataclass |-> <<"d","a","t","a","c","l","a","s","s">>,
    field |-> <<"f","i","e","l","d">>,
    fastclasses_json |-> <<"f","a","s","t","c","l","a","s","s","e","s","_","j","s","o","n">>,
    fastclasses |-> <<"f","a","s","t","c","l","a","s","s","e","s">>,
    dataclass_json |-> <<"d","a","t","a","c","l","a","s","s","_","j","s","o","n">>,
    JSONMixin |-> <<"J","S","O","N","M","i","x","i","n">>,
    metadata |-> <<"m","e","t","a","d","a","t","a">>,
    field_name |-> <<"f","i","e","l","d","_","n","a","m","e">>,
    default |-> <<"d","e","f","a","u","l","t">>,
    decoder |-> <<"d","e","c","o","d","e","r">>,
    to_object |-> <<"t","o","_","o","b","j","e","c","t">>,
    class_map |-> <<"c","l","a","s","s","_","m","a","p">>,
    Unknown |-> <<"U","n","k","n","o","w","n">>,
    OneOf |-> <<"O","n","e","O","f","$">>,
    u_class |-> <<"_","c","l","a","s","s">>,
    frame |-> <<"f","r","a","m","e">>,
    do_objectID |-> <<"d","o","_","o","b","j","e","c","t","I","D">>,
    layers |-> <<"l","a","y","e","r","s">>,
    Contents |-> <<"C","o","n","t","e","n","t","s">>,
    Document |-> <<"D","o","c","u","m","e","n","t">>,
    AnyLayer |-> <<"A","n","y","L","a","y","e","r">>,
    AnyGroup |-> <<"A","n","y","G","r","o","u","p">>,
    AnyObject |-> <<"A","n","y","O","b","j","e","c","t">>,
    ClassValue |-> <<"C","l","a","s","s","V","a","l","u","e">> ]

-----------------------------------------------------------------------------
(* Python values and JSON Schema nodes.                                    *)
(* An optional key of a dict is a sequence of length 0 (absent, or null)   *)
(* or 1 (present).                                                         *)

\* a Python scalar: its type and its str()
Val(t, s) == [t |-> t, s |-> s]
StrVal(s) == Val("str", s)
IntVal(s) == Val("int", s)
FloatVal(s) == Val("float", s)
BoolVal(s) == Val("bool", s)
NoneVal == Val("NoneType", L.None)
\* the field of a node that carries no value
NoVal == Val("absent", <<>>)

\* the empty schema {}
EmptySchema == [
    id |-> <<>>, type |-> "absent", enum |-> <<>>, enumDescriptions |-> <<>>,
    const |-> <<>>, ref |-> <<>>, oneOf |-> <<>>, properties |-> <<>>,
    required |-> <<>>, additionalProperties |-> FALSE,
    patternProperties |-> <<>>, items |-> <<>> ]

\* one (key, value) item of a dict of schemas
Item(key, schema) == [key |-> key, schema |-> schema]

\* ordered dict: an insertion-ordered sequence of entries with a `key` field
DictHas(d, key) == \E i \in DOMAIN d : d[i].key = key
DictIndex(d, key) == CHOOSE i \in DOMAIN d : d[i].key = key
DictGet(d, key) == d[DictIndex(d, key)]
\* d[key] = entry: a present key keeps its position, a new key is appended
DictSet(d, entry) ==
    IF DictHas(d, entry.key)
    THEN [d EXCEPT ![DictIndex(d, entry.key)] = entry]
    ELSE Append(d, entry)
DictKeys(d) == [i \in DOMAIN d |-> d[i].key]

-----------------------------------------------------------------------------
(* AST nodes.                                                              *)

Node(k, id, val, elts) == [k |-> k, id |-> id, val |-> val, elts |-> elts]
\* the Python value None, returned in place of a node
NoNode == Node("None", <<>>, NoVal, <<>>)
Name(id) == Node("Name", id, NoVal, <<>>)
Constant(value) == Node("Constant", <<>>, value, <<>>)
Tuple(elts) == Node("Tuple", <<>>, NoVal, elts)
\* ast.Subscript(value=ast.Name(id), slice=slice)
Subscript(id, slice) == Node("Subscript", id, NoVal, <<slice>>)
\* ast.keyword(arg, value)
Keyword(arg, value) == Node("keyword", arg, NoVal, <<value>>)
\* ast.Dict(keys, values), as the sequence of its (key, value) pairs
DictNode(pairs) == Node("Dict", <<>>, NoVal, pairs)
Pair(key, value) == Node("pair", <<>>, NoVal, <<key, value>>)
\* ast.Call(func=ast.Name(id), args=[], keywords)
Call(id, keywords) == Node("Call", id, NoVal, keywords)
\* ast.AnnAssign(target=Name(id), annotation, value) ; value is <<>> or <<v>>
AnnAssign(id, annotation, value) ==
    Node("AnnAssign", id, NoVal, <<annotation>> \o value)
\* ast.Assign(targets=[Name(id)], value)
Assign(id, value) == Node("Assign", id, NoVal, <<value>>)
\* ast.ClassDef(name, bases, body, decorator_list)
ClassDef(name, bases, body, decorator_list) ==
    Node("ClassDef", name, NoVal,
         << Node("bases", <<>>, NoVal, bases),
            Node("decorator_list", <<>>, NoVal, decorator_list),
            Node("body", <<>>, NoVal, body) >>)
ClassBases(cdef) == cdef.elts[1].elts
ClassBody(cdef) == cdef.elts[3].elts
AnnAnnotation(ann) == ann.elts[1]
\* ann_assign.value: <<>> when None
AnnValue(ann) == SubSeq(ann.elts, 2, Len(ann.elts))

\* utils.parse_function_call('field(metadata={"fastclasses_json": {...}})')
FieldCall(fastclasses_pairs) ==
    Call(L.field,
         << Keyword(L.metadata,
                DictNode(<< Pair(Constant(StrVal(L.fastclasses_json)),
                                 DictNode(fastclasses_pairs)) >>)) >>)

-----------------------------------------------------------------------------
(* DataClassBuilder.  A builder state st is                                *)
(*   [class_dict, import_statements, assigned, err]                        *)
(* where err is "" or the exception that is propagating.  An operation     *)
(* that returns a node yields [st, node].                                  *)

\* DataClassBuilder.__init__
NewBuilder == [class_dict |-> <<>>, import_statements |-> <<>>,
               assigned |-> <<>>, err |-> ""]

Ret(st, node) == [st |-> st, node |-> node]
\* a raise that is lost: None is returned and no exception propagates
RaiseSwallowed(st, exc) == Ret(st, NoNode)
\* raise: the exception propagates and nothing is returned
Raise(st, exc) == Ret([st EXCEPT !.err = exc], NoNode)

\* ast.ImportFrom(module, names)
ImportFrom(key, module, names) == [key |-> key, module |-> module, names |-> names]

check_enum_import(st) ==
    IF ~DictHas(st.import_statements, L.enum)
    THEN [st EXCEPT !.import_statements =
              DictSet(@, ImportFrom(L.enum, L.enum, <<L.Enum>>))]
    ELSE st

check_dataclasses_import(st) ==
    IF ~DictHas(st.import_statements, L.dataclasses)
    THEN [st EXCEPT !.import_statements =
              DictSet(@, ImportFrom(L.dataclasses, L.dataclasses,
                                    <<L.dataclass, L.field>>))]
    ELSE st

\* the guard looks up 'fastclasses', the store uses 'fastclasses_json'
check_fastclasses_json_import(st) ==
    LET st1 == check_dataclasses_import(st) IN
    IF ~DictHas(st1.import_statements, L.fastclasses)
    THEN [st1 EXCEPT !.import_statements =
              DictSet(@, ImportFrom(L.fastclasses_json, L.fastclasses_json,
                                    <<L.dataclass_json, L.JSONMixin>>))]
    ELSE st1

check_typing_import(st, name) ==
    IF name \in {L.int, L.str, L.float, L.bool, L.None} THEN st
    ELSE
      LET imps1 == IF ~DictHas(st.import_statements, L.typing)
                   THEN DictSet(st.import_statements,
                                ImportFrom(L.typing, L.typing, <<>>))
                   ELSE st.import_statements
          i == DictIndex(imps1, L.typing)
          imps2 == IF name \notin SeqToSet(imps1[i].names)
                   THEN [imps1 EXCEPT ![i].names = Append(@, name)]
                   ELSE imps1
      IN [st EXCEPT !.import_statements = imps2]

create_literal(st, value) ==
    Ret(check_typing_import(st, L.Literal), Subscript(L.Literal, Constant(value)))

\* nodes[0] of an empty list raises IndexError
create_union(st, nodes) ==
    IF Len(nodes) > 1
    THEN Ret(check_typing_import(st, L.Union), Subscript(L.Union, Tuple(nodes)))
    ELSE IF nodes = <<>> THEN Raise(st, "IndexError")
    ELSE Ret(st, nodes[1])

create_optional(st, node) ==
    Ret(check_typing_import(st, L.Optional), Subscript(L.Optional, node))

create_list(st, node) ==
    Ret(check_typing_import(st, L.List), Subscript(L.List, node))

create_dict(st, key, value) ==
    LET st1 == check_typing_import(check_typing_import(st, L.Dict), key)
        st2 == IF value.k = "Name" THEN check_typing_import(st1, value.id) ELSE st1
    IN Ret(st2, Subscript(L.Dict, Tuple(<<Name(key), value>>)))

create_any(st) == Ret(check_typing_import(st, L.Any), Name(L.Any))

RECURSIVE ClassKey(_, _)
ClassKey(class_key, cd) ==
    IF DictHas(cd, class_key)
    THEN ClassKey(class_key \o <<s_underscore>>, cd) ELSE class_key

generate_class_name_from_key(st, key) == ClassKey(UpperFirst(key), st.class_dict)

\* self.class_dict[identifier] = (schema, decl)
SetClass(st, identifier, schema, decl) ==
    LET entry == [key |-> identifier, schema |-> schema, decl |-> decl] IN
    [st EXCEPT !.class_dict = DictSet(@, entry),
               !.assigned = Append(@, [key |-> identifier, decl |-> decl])]

\* [self.create_literal(value) for value in schema['enum']] : [st, nodes]
RECURSIVE Literals(_, _, _)
Literals(st, values, nodes) ==
    IF values = <<>> THEN [st |-> st, nodes |-> nodes]
    ELSE LET r == create_literal(st, Head(values))
         IN Literals(r.st, Tail(values), Append(nodes, r.node))

\* a sort key that only tells required keys from the others
SortKeyByMembership(key, required) ==
    IF key \in SeqToSet(required) THEN 0 ELSE Len(required)

\* position of a key of `properties` under the sort key of lines 281-283
SortKey(key, required) ==
    IF key \in SeqToSet(required)
    THEN (CHOOSE i \in DOMAIN required :
              required[i] = key /\ \A j \in 1..(i - 1) : required[j] # key) - 1
    ELSE Len(required)

\* sorted(items, key): stable, so equal keys keep their source order
RECURSIVE SortedFrom(_, _, _)
SortedFrom(items, required, k) ==
    IF k > Len(required) THEN <<>>
    ELSE SelectSeq(items, LAMBDA it : SortKey(it.key, required) = k)
         \o SortedFrom(items, required, k + 1)

SortProperties(items, required) == SortedFrom(items, required, 0)

\* the targets of the AnnAssign elements built so far
Targets(elements) == [i \in DOMAIN elements |-> elements[i].id]

\* an AnnAssign that gives a default to every renamed field
MakeFieldAlwaysDefault(key, new_key, annotation, is_required) ==
    IF new_key # key
    THEN AnnAssign(new_key, annotation,
             <<[FieldCall(<<Pair(Constant(StrVal(L.field_name)),
                                 Constant(StrVal(key)))>>)
                   EXCEPT !.elts = Append(@, Keyword(L.default, Constant(NoneVal)))]>>)
    ELSE AnnAssign(new_key, annotation,
                   IF is_required THEN <<>> ELSE <<Constant(NoneVal)>>)

\* lines 300-323: the AnnAssign of one property
MakeField(key, new_key, annotation, is_required) ==
    LET renamed == IF new_key # key
                   THEN <<FieldCall(<<Pair(Constant(StrVal(L.field_name)),
                                           Constant(StrVal(key)))>>)>>
                   ELSE <<>>
        value == IF ~is_required
                 THEN IF renamed # <<>>
                      THEN <<[renamed[1] EXCEPT !.elts =
                                Append(@, Keyword(L.default, Constant(NoneVal)))]>>
                      ELSE <<Constant(NoneVal)>>
                 ELSE renamed
    IN AnnAssign(new_key, annotation, value)

\* Union[...] of translated nodes, unless translating one of them raised
UnionOf(ns) ==
    IF ns.st.err # "" THEN Ret(ns.st, NoNode) ELSE create_union(ns.st, ns.nodes)

\* Union[Literal[v], ...] over schema['enum']
EnumUnion(st, schema) == UnionOf(Literals(st, schema.enum[1], <<>>))

\* List[node] of a translated node
ListOf(r) == IF r.st.err # "" THEN r ELSE create_list(r.st, r.node)

\* Dict[str, node] of a translated node
DictOf(u) == IF u.st.err # "" THEN u ELSE create_dict(u.st, L.str, u.node)

\* lines 325-331: the ClassDef of an object schema
DataClassDef(name, elements) ==
    ClassDef(name, <<Name(L.JSONMixin)>>, elements,
             <<Name(L.dataclass_json), Name(L.dataclass)>>)

\* lines 336-340: a nested class is registered, and referred to by a
\* string constant
NestedClass(st, new_identifier, elements, schema) ==
    Ret(SetClass(st, new_identifier, schema, DataClassDef(new_identifier, elements)),
        Constant(StrVal(new_identifier)))

\* lines 324-340: new_identifier is derived from `identifier` alone
DeclareClass(st, elements, identifier, schema, is_top_level) ==
    IF is_top_level THEN Ret(st, DataClassDef(identifier, elements))
    ELSE NestedClass(st, generate_class_name_from_key(st, identifier),
                     elements, schema)

\* lines 324-340, after the loop over the properties returned `body`
ObjectClass(body, identifier, schema, is_top_level) ==
    IF body.st.err # "" THEN Ret(body.st, NoNode)
    ELSE DeclareClass(check_fastclasses_json_import(body.st), body.nodes,
                      identifier, schema, is_top_level)

RECURSIVE schema_to_ast_node(_, _, _, _)
RECURSIVE TranslateProperties(_, _, _, _)
RECURSIVE TranslateAll(_, _, _, _)
RECURSIVE PropertyStep(_, _, _, _)
RECURSIVE FieldStep(_, _, _, _, _)
RECURSIVE AllStep(_, _, _, _)

\* lines 300-323: the field of one property whose annotation is `ann`
FieldStep(ann, items, required, elements, is_required) ==
    TranslateProperties(ann.st, Tail(items), required,
        Append(elements,
               MakeField(Head(items).key,
                         generate_field_name(Head(items).key, Targets(elements)),
                         ann.node, is_required)))

\* lines 286-299: one iteration of the loop, `r` being the translated property
PropertyStep(r, items, required, elements) ==
    IF r.st.err # "" THEN [st |-> r.st, nodes |-> elements]
    ELSE IF r.node.k = "None"
    THEN TranslateProperties(r.st, Tail(items), required, elements)
    ELSE IF Head(items).key \in SeqToSet(required)
    THEN FieldStep(r, items, required, elements, TRUE)
    ELSE FieldStep(create_optional(r.st, r.node), items, required, elements, FALSE)

\* lines 285-323: the loop over the sorted properties : [st, nodes]
TranslateProperties(st, items, required, elements) ==
    IF items = <<>> \/ st.err # "" THEN [st |-> st, nodes |-> elements]
    ELSE PropertyStep(schema_to_ast_node(st, Head(items).key,
                                         Head(items).schema, FALSE),
                      items, required, elements)

\* one element of the comprehension below
AllStep(r, items, is_top_level, nodes) ==
    TranslateAll(r.st, Tail(items), is_top_level, Append(nodes, r.node))

\* [self.schema_to_ast_node(identifier, s, False) for s in schemas] : [st, nodes]
\* (items carry the identifier each schema is translated under)
TranslateAll(st, items, is_top_level, nodes) ==
    IF items = <<>> \/ st.err # "" THEN [st |-> st, nodes |-> nodes]
    ELSE AllStep(schema_to_ast_node(st, Head(items).key, Head(items).schema,
                                    is_top_level),
                 items, is_top_level, nodes)

\* the schemas of oneOf, each translated under 'OneOf' + identifier
OneOfItems(identifier, schema) ==
    [i \in DOMAIN schema.oneOf[1] |->
        Item(L.OneOf \o identifier, schema.oneOf[1][i])]

\* schema.get('required', [])
RequiredOf(schema) == IF schema.required # <<>> THEN schema.required[1] ELSE <<>>

\* DataClassBuilder.schema_to_ast_node
schema_to_ast_node(st, identifier, schema, is_top_level) ==
    IF schema.type = "string" THEN
        IF schema.enum # <<>> THEN EnumUnion(st, schema) ELSE Ret(st, Name(L.str))
    ELSE IF schema.type = "number" THEN
        IF schema.enum # <<>>
        THEN Raise(st, "Exception: enum not supported for number")
        ELSE Ret(st, Name(L.float))
    ELSE IF schema.type = "integer" THEN
        IF schema.enum # <<>> THEN EnumUnion(st, schema) ELSE Ret(st, Name(L.int))
    ELSE IF schema.type = "boolean" THEN
        IF schema.enum # <<>> THEN EnumUnion(st, schema) ELSE Ret(st, Name(L.bool))
    ELSE IF schema.type = "null" THEN
        create_literal(st, NoneVal)
    ELSE IF schema.type = "object" THEN
        IF schema.properties # <<>> THEN
            IF schema.additionalProperties
            THEN create_dict(st, L.str, Name(L.Any))
            ELSE ObjectClass(
                     TranslateProperties(
                         st,
                         SortProperties(schema.properties[1], RequiredOf(schema)),
                         RequiredOf(schema), <<>>),
                     identifier, schema, is_top_level)
        ELSE IF schema.patternProperties # <<>> THEN
            DictOf(UnionOf(TranslateAll(st, schema.patternProperties[1],
                                        FALSE, <<>>)))
        ELSE create_any(st)
    ELSE IF schema.type = "array" THEN
        IF schema.items # <<>>
        THEN ListOf(schema_to_ast_node(st, identifier, schema.items[1], FALSE))
        ELSE ListOf(create_any(st))
    ELSE
        IF schema.const # <<>> THEN
            IF schema.const[1].t \in {"str", "int", "float"}
            THEN create_literal(st, schema.const[1])
            ELSE Raise(st, "Exception: Unsupported const value")
        ELSE IF schema.ref # <<>> THEN
            IF is_top_level THEN Ret(st, Name(extract_ref(schema.ref[1])))
            ELSE Ret(st, Constant(StrVal(extract_ref(schema.ref[1]))))
        ELSE IF schema.oneOf # <<>> THEN
            UnionOf(TranslateAll(st, OneOfItems(identifier, schema), FALSE, <<>>))
        ELSE create_any(st)

-----------------------------------------------------------------------------
(* Enum member names: humps.pascalize, re.sub(r'\W', '', _) and            *)
(* generate_field_name (utils.py line 389).                                *)

UpperChars == {"A","B","C","D","E","F","G","H","I","J","K","L","M","N","O","P",
               "Q","R","S","T","U","V","W","X","Y","Z"}
LowerChars == {"a","b","c","d","e","f","g","h","i","j","k","l","m","n","o","p",
               "q","r","s","t","u","v","w","x","y","z"}
DigitChars == {"0","1","2","3","4","5","6","7","8","9"}
\* the characters \W does not match
WordChars == UpperChars \cup LowerChars \cup DigitChars \cup {"_"}
\* the separators of humps: [\-_\s]
SepChars == {"-", "_", " "}

\* str.lower() of one character
Lower(c) ==
    IF c \in UpperChars
    THEN CHOOSE l \in LowerChars : Upper(l) = c
    ELSE c

\* str.isupper(): some cased character, and no lower-case one
IsUpper(s) == /\ \E i \in DOMAIN s : s[i] \in UpperChars
              /\ \A i \in DOMAIN s : s[i] \notin LowerChars
\* str.isnumeric()
IsNumeric(s) == s # <<>> /\ \A i \in DOMAIN s : s[i] \in DigitChars

\* PASCAL_RE.sub: the first character of every run of non-separators is upper-cased
CapitalizeRuns(s) ==
    [i \in DOMAIN s |->
        IF s[i] \notin SepChars /\ (i = 1 \/ s[i - 1] \in SepChars)
        THEN Upper(s[i]) ELSE s[i]]

\* UNDERSCORE_RE.sub from position i: separators between two non-separators
\* are dropped and the character after them is upper-cased
RECURSIVE JoinRuns(_, _)
JoinRuns(s, i) ==
    IF i > Len(s) THEN <<>>
    ELSE IF i > 1 /\ s[i - 1] \notin SepChars /\ s[i] \in SepChars
    THEN LET after == { j \in i..Len(s) : s[j] \notin SepChars } IN
         IF after = {} THEN SubSeq(s, i, Len(s))
         ELSE LET j == CHOOSE m \in after : \A n \in after : m <= n
              IN <<Upper(s[j])>> \o JoinRuns(s, j + 1)
    ELSE <<s[i]>> \o JoinRuns(s, i + 1)

\* humps.camelize of a string
camelize(s) ==
    IF IsUpper(s) \/ IsNumeric(s) THEN s
    ELSE LET s1 == IF s # <<>> /\ ~IsUpper(SubSeq(s, 1, IF Len(s) < 2 THEN Len(s) ELSE 2))
                   THEN <<Lower(s[1])>> \o Tail(s) ELSE s
         IN JoinRuns(s1, 1)

\* humps.pascalize of a string
pascalize(s) ==
    IF IsUpper(s) \/ IsNumeric(s) THEN s
    ELSE LET c == camelize(CapitalizeRuns(s))
         IN IF c # <<>> THEN <<Upper(c[1])>> \o Tail(c) ELSE c

\* re.sub(r'\W', '', s)
DropNonWord(s) == SelectSeq(s, LAMBDA c : c \in WordChars)

\* reduce(enum_pair_reducer, zip(enumDescriptions, enum), {}) : ordered dict
\* of [key |-> member name, value |-> enum value]
RECURSIVE enum_pairs(_, _, _)
enum_pairs(descriptions, values, acc) ==
    IF descriptions = <<>> \/ values = <<>> THEN acc
    ELSE enum_pairs(Tail(descriptions), Tail(values),
             DictSet(acc, [key |-> generate_field_name(
                                       DropNonWord(pascalize(Head(descriptions))),
                                       DictKeys(acc)),
                           value |-> Head(values)]))

\* the Enum class with its members in reverse order of the pairs
EnumClassDefReversed(identifier, pairs) ==
    ClassDef(identifier, <<Name(L.Enum)>>,
             [i \in DOMAIN pairs |->
                 Assign(pairs[Len(pairs) + 1 - i].key,
                        Constant(pairs[Len(pairs) + 1 - i].value))],
             <<>>)

\* lines 391-411: the Enum class of the member pairs
EnumClassDef(identifier, pairs) ==
    ClassDef(identifier, <<Name(L.Enum)>>,
             [i \in DOMAIN pairs |-> Assign(pairs[i].key, Constant(pairs[i].value))],
             <<>>)

\* lines 412, 417, 425: class_dict[identifier] = (schema, decl); decl is returned
Declare(st, identifier, schema, decl) ==
    Ret(SetClass(st, identifier, schema, decl), decl)

\* lines 414-426: what becomes of the node `r` of a top-level schema
TopLevelDeclaration(r, identifier, schema) ==
    IF r.st.err # "" THEN r
    ELSE IF r.node.k = "ClassDef" THEN Declare(r.st, identifier, schema, r.node)
    ELSE IF r.node.k # "None"
    THEN Declare(r.st, identifier, schema, Assign(identifier, r.node))
    ELSE Ret(r.st, NoNode)

\* extract_id(schema.get('$id', 'Unknown'))
IdentifierOf(schema) ==
    extract_id(IF schema.id # <<>> THEN schema.id[1] ELSE L.Unknown)

\* DataClassBuilder.add_schema_to_top_level_declaration : [st, node]
add_schema_to_top_level_declaration(st, schema) ==
    IF schema.enum # <<>> /\ schema.enumDescriptions # <<>>
    THEN Declare(check_enum_import(st), IdentifierOf(schema), schema,
                 EnumClassDef(IdentifierOf(schema),
                              enum_pairs(schema.enumDescriptions[1],
                                         schema.enum[1], <<>>)))
    ELSE TopLevelDeclaration(
             schema_to_ast_node(st, IdentifierOf(schema), schema, TRUE),
             IdentifierOf(schema), schema)

-----------------------------------------------------------------------------
(* utils.py: the schema classifiers.                                       *)

\* schema['properties'].get(key) is a dict
PropertyIsDict(schema, key) ==
    schema.properties # <<>> /\ DictHas(schema.properties[1], key)

is_layer_schema(schema) ==
    PropertyIsDict(schema, L.frame) /\ PropertyIsDict(schema, L.do_objectID)

is_group_schema(schema) ==
    is_layer_schema(schema) /\ PropertyIsDict(schema, L.layers)

is_object_schema(schema) ==
    schema.properties # <<>> /\ DictHas(schema.properties[1], L.u_class)

-----------------------------------------------------------------------------
(* generate.py: generate().                                                *)

\* {**a, **b}: keys of a keep their position, values of b win
RECURSIVE Merge(_, _)
Merge(a, b) == IF b = <<>> THEN a ELSE Merge(DictSet(a, Head(b)), Tail(b))

\* doc.get('definitions', {})
DefinitionsOf(doc) == IF doc.definitions # <<>> THEN doc.definitions[1] ELSE <<>>

\* generate.definitions, lines 12-17
MergedDefinitions(s) ==
    Merge(Merge(Merge(DefinitionsOf(s.document), DefinitionsOf(s.fileFormat)),
                DefinitionsOf(s.meta)),
          DefinitionsOf(s.user))

\* {"$id": id, "oneOf": [{"$ref": schema['$id']} for schema in defs if pred(schema)]}
\* (`picked` are the definitions pred holds of)
UmbrellaSchema(id, picked) ==
    [EmptySchema EXCEPT
        !.id = <<id>>,
        !.oneOf = << [i \in DOMAIN picked |->
                        [EmptySchema EXCEPT !.ref = picked[i].schema.id]] >>]

\* generate.map_definitions: str(klass['const']) or ''
map_definitions(schema) ==
    IF is_object_schema(schema)
       /\ DictGet(schema.properties[1], L.u_class).schema.const # <<>>
    THEN DictGet(schema.properties[1], L.u_class).schema.const[1].s
    ELSE <<>>

\* the set of lines 64-71, before list() fixes an iteration order
ClassSet(defs) ==
    { map_definitions(defs[i].schema) : i \in DOMAIN defs } \ {<<>>}

\* every order list(set(...)) can give: the iteration order of a set of
\* strings is not fixed by the language (it follows the hash seed of the run)
Orders(S) ==
    { o \in [1..Cardinality(S) -> S] : \A i, j \in DOMAIN o : o[i] = o[j] => i = j }

\* lines 73-88
AllDefinitions(s, defs, classes) ==
    LET hash(name) == <<s_hash>> \o name
        contents == [s.fileFormat.schema EXCEPT !.id = <<hash(L.Contents)>>]
        document == [s.document.schema EXCEPT !.id = <<hash(L.Document)>>]
        any_layer == UmbrellaSchema(hash(L.AnyLayer),
                         SelectSeq(defs, LAMBDA d : is_layer_schema(d.schema)))
        any_group == UmbrellaSchema(hash(L.AnyGroup),
                         SelectSeq(defs, LAMBDA d : is_group_schema(d.schema)))
        any_object == UmbrellaSchema(hash(L.AnyObject),
                         SelectSeq(defs, LAMBDA d : is_object_schema(d.schema)))
        class_values ==
            [EmptySchema EXCEPT
                !.id = <<hash(L.ClassValue)>>,
                !.enum = << [i \in DOMAIN classes |-> StrVal(classes[i])] >>,
                !.enumDescriptions = <<classes>>]
    IN Merge(defs, << Item(L.Contents, contents), Item(L.Document, document),
                      Item(L.AnyLayer, any_layer), Item(L.AnyGroup, any_group),
                      Item(L.AnyObject, any_object),
                      Item(L.ClassValue, class_values) >>)

\* generate.build_class_map, lines 94-101: ordered dict of [key, value]
RECURSIVE ClassMapLoop(_, _, _)
ClassMapLoop(classes, defs, acc) ==
    IF classes = <<>> THEN acc
    ELSE
      LET sketch_class == Head(classes)
          matches == { i \in DOMAIN defs :
                          /\ is_object_schema(defs[i].schema)
                          /\ LET klass == DictGet(defs[i].schema.properties[1],
                                                  L.u_class).schema
                             IN /\ klass.const # <<>>
                                \* klass['const'] == sketch_class: a str equals
                                \* only a str
                                /\ klass.const[1] = StrVal(sketch_class) }
      IN IF matches = {} THEN ClassMapLoop(Tail(classes), defs, acc)
         ELSE LET first == CHOOSE i \in matches : \A j \in matches : i <= j
              IN ClassMapLoop(Tail(classes), defs,
                     DictSet(acc, [key |-> sketch_class,
                                   value |-> extract_id(defs[first].schema.id[1])]))

build_class_map_dict(classes, defs) == ClassMapLoop(classes, defs, <<>>)

\* lines 102-126: class_map: Dict[str, Type[JSONMixin]] = {...}
build_class_map(cm) ==
    AnnAssign(L.class_map,
        Subscript(L.Dict, Tuple(<< Name(L.str),
                                   Subscript(L.Type, Name(L.JSONMixin)) >>)),
        << DictNode([i \in DOMAIN cm |->
                        Pair(Constant(StrVal(cm[i].key)), Name(cm[i].value))]) >>)

\* generate.check_ann_assign_contains_union.check_subscript
RECURSIVE check_subscript(_)
check_subscript(subscript) ==
    IF subscript.id = L.Union THEN "UNION"
    ELSE IF subscript.id = L.List /\ subscript.elts[1].k = "Subscript"
            /\ check_subscript(subscript.elts[1]) = "UNION" THEN "LIST_UNION"
    ELSE IF subscript.id = L.Optional /\ subscript.elts[1].k = "Subscript"
            /\ check_subscript(subscript.elts[1]) = "UNION" THEN "OPTIONAL_UNION"
    ELSE "NOT_UNION"

check_ann_assign_contains_union(ann_assign) ==
    IF AnnAnnotation(ann_assign).k = "Subscript"
    THEN check_subscript(AnnAnnotation(ann_assign))
    ELSE "NOT_UNION"

\* parse_lambda_function('lambda lst: [to_object(x) for x in lst]')
list_to_object_lambda == Node("Lambda", L.to_object, NoVal, <<>>)
to_object_call == Name(L.to_object)
\* parse_def_function('def to_object(obj) ...')
to_object_func == Node("FunctionDef", L.to_object, NoVal, <<>>)

\* the pair that holds the fastclasses_json dict of a metadata keyword
IsFastclassesPair(p) ==
    /\ p.elts[1].k = "Constant" /\ p.elts[1].val = StrVal(L.fastclasses_json)
    /\ p.elts[2].k = "Dict"

\* lines 151-167 on one keyword: the decoder is appended to the first
\* fastclasses_json dict of a metadata keyword
AddDecoder(keyword, decoder) ==
    IF keyword.id = L.metadata /\ keyword.elts[1].k = "Dict"
       /\ \E i \in DOMAIN keyword.elts[1].elts :
              IsFastclassesPair(keyword.elts[1].elts[i])
    THEN LET pairs == keyword.elts[1].elts
             i == CHOOSE m \in DOMAIN pairs :
                      /\ IsFastclassesPair(pairs[m])
                      /\ \A n \in 1..(m - 1) : ~IsFastclassesPair(pairs[n])
             with == [pairs[i].elts[2] EXCEPT !.elts =
                         Append(@, Pair(Constant(StrVal(L.decoder)), decoder))]
         IN [keyword EXCEPT !.elts[1].elts[i].elts[2] = with]
    ELSE keyword

\* a wiring that replaces the value of the field by a new field call
WireElementFresh(element) ==
    IF element.k # "AnnAssign"
       \/ check_ann_assign_contains_union(element) = "NOT_UNION" THEN element
    ELSE AnnAssign(element.id, AnnAnnotation(element),
             <<[FieldCall(<<>>) EXCEPT !.elts =
                   [i \in DOMAIN FieldCall(<<>>).elts |->
                       AddDecoder(FieldCall(<<>>).elts[i], to_object_call)]]>>)
\* lines 140-168 on one AnnAssign element
WireElement(element) ==
    LET union_type == check_ann_assign_contains_union(element) IN
    IF element.k # "AnnAssign" \/ union_type = "NOT_UNION" THEN element
    ELSE
      LET old_value == AnnValue(element)
          is_call == old_value # <<>> /\ old_value[1].k = "Call"
          new_value ==
              IF is_call THEN old_value[1]
              ELSE IF old_value # <<>>
              THEN [FieldCall(<<>>) EXCEPT !.elts =
                       Append(@, Keyword(L.default, old_value[1]))]
              ELSE FieldCall(<<>>)
          decoder == IF union_type = "LIST_UNION" THEN list_to_object_lambda
                     ELSE to_object_call
          wired == [new_value EXCEPT !.elts =
                       [i \in DOMAIN new_value.elts |->
                           AddDecoder(new_value.elts[i], decoder)]]
      IN AnnAssign(element.id, AnnAnnotation(element), <<wired>>)

\* generate.insert_encoder_and_decoder_to_class: the class_dict it leaves
insert_encoder_and_decoder_to_class(cd) ==
    [i \in DOMAIN cd |->
        IF cd[i].decl.k = "ClassDef"
        THEN [cd[i] EXCEPT !.decl.elts[3].elts =
                 [j \in DOMAIN @ |->
                     IF @[j].k = "AnnAssign" THEN WireElement(@[j]) ELSE @[j]]]
        ELSE cd[i]]

\* ast.Module(body): the import statements, then the other statements
ImportNode(imp) ==
    Node("ImportFrom", imp.module, NoVal, [i \in DOMAIN imp.names |-> Name(imp.names[i])])

\* utils.py lines 437-447 with the hooks of generate: the module body.
\* `imports` are the import objects root.body was extended with, as they
\* are when the module is returned.
ModuleOf(imports, cd, cm) ==
    Node("Module", <<>>, NoVal,
         [i \in DOMAIN imports |-> ImportNode(imports[i])]
         \o <<to_object_func>>
         \o [i \in DOMAIN cd |-> cd[i].decl]
         \o <<build_class_map(cm)>>)

\* build, after before_class_def ran on the builder `st`; `extended` are the
\* keys of the import statements root.body holds
BuildFrom(st, extended, cd, cm) ==
    [st |-> [st EXCEPT !.class_dict = cd],
     class_map |-> cm,
     module |-> ModuleOf(SelectSeq(st.import_statements,
                                   LAMBDA imp : imp.key \in SeqToSet(extended)),
                         cd, cm)]

\* DataClassBuilder.build(None, before_class_def, after_class_def) in generate:
\* [st, class_map, module].  root.body holds the import objects that exist
\* when it is extended; before_class_def then adds Type to the typing import,
\* which reaches the module only through an import object that already existed.
build(st, classes, defs) ==
    BuildFrom(check_typing_import(st, L.Type),
              DictKeys(st.import_statements),
              insert_encoder_and_decoder_to_class(st.class_dict),
              build_class_map_dict(classes, defs))

\* generate.py lines 89-91: the loop over all_definitions; an exception ends it
RECURSIVE TranslateDefinitions(_, _)
TranslateDefinitions(st, items) ==
    IF items = <<>> \/ st.err # "" THEN st
    ELSE TranslateDefinitions(
             add_schema_to_top_level_declaration(st, Head(items).schema).st,
             Tail(items))

\* generate.py lines 183-187: build the module unless the loop raised
BuildUnlessRaised(st, classes, defs) ==
    IF st.err # "" THEN [st |-> st, class_map |-> <<>>, module |-> NoNode]
    ELSE build(st, classes, defs)

\* generate.py lines 11-187 for one iteration order `classes` of the set of
\* class names: [st, class_map, module]
generate(s, classes) ==
    BuildUnlessRaised(
        TranslateDefinitions(NewBuilder,
                             AllDefinitions(s, MergedDefinitions(s), classes)),
        classes, MergedDefinitions(s))

-----------------------------------------------------------------------------
(* Sampled inputs.                                                         *)

TypeSchema(type) == [EmptySchema EXCEPT !.type = type]
RefSchema(ref) == [EmptySchema EXCEPT !.ref = <<ref>>]
ConstSchema(value) == [EmptySchema EXCEPT !.const = <<value>>]
ObjectSchema(properties) ==
    [EmptySchema EXCEPT !.type = "object", !.properties = <<properties>>]
WithId(schema, id) == [schema EXCEPT !.id = <<id>>]

id_T == <<"#","T">>
id_Foo == <<"#","F","o","o">>
ref_Foo == <<"#","F","o","o">>
ref_T == <<"#","/","d","e","f","i","n","i","t","i","o","n","s","/","T">>
k_foo == <<"f","o","o">>
k_bar == <<"b","a","r">>
k_t == <<"t">>

\* all sequences of length <= n over S
RECURSIVE SeqsUpTo(_, _)
SeqsUpTo(S, n) ==
    IF n = 0 THEN {<<>>}
    ELSE LET shorter == SeqsUpTo(S, n - 1)
         IN shorter \cup { Append(q, x) : q \in shorter, x \in S }

Distinct(q) == \A i, j \in DOMAIN q : q[i] = q[j] => i = j

\* the keys of the sampled class schemas: plain, underscored, keyword
KeyPool == { <<"a">>, <<"_","a">>, <<"a","s">>, <<"_","a","s">>, <<"a","s","_">> }

\* the schema each sampled key carries
PropertySchemaOf(key) ==
    CASE key = <<"a">> -> TypeSchema("string")
      [] key = <<"_","a">> -> RefSchema(ref_Foo)
      [] key = <<"a","s">> ->
            [EmptySchema EXCEPT !.oneOf = << <<RefSchema(ref_Foo), RefSchema(ref_T)>> >>]
      [] key = <<"_","a","s">> -> ObjectSchema(<<Item(k_bar, TypeSchema("number"))>>)
      [] OTHER -> [TypeSchema("array") EXCEPT !.items =
            << [EmptySchema EXCEPT !.oneOf =
                   << <<RefSchema(ref_Foo), TypeSchema("string")>> >>] >>]

PropertyLists ==
    { [i \in DOMAIN q |-> Item(q[i], PropertySchemaOf(q[i]))] :
          q \in { q \in SeqsUpTo(KeyPool, MaxProps) : Distinct(q) } }

\* `required` lists: keys of the class, a key it does not have, any order,
\* repeats
RequiredLists ==
    SeqsUpTo({ <<"a">>, <<"a","s">>, <<"_","a","s">>, <<"z">> }, MaxRequired)

ClassSchemas ==
    { [ObjectSchema(ps) EXCEPT !.required = r] :
          ps \in PropertyLists, r \in {<<>>} \cup { <<q>> : q \in RequiredLists } }

\* the values of the sampled enum lists, in order
EnumValue(i) ==
    CASE i = 1 -> StrVal(<<"a">>) [] i = 2 -> IntVal(<<"1">>)
      [] OTHER -> StrVal(<<"b">>)
EnumChoices == {<<>>} \cup { << [i \in 1..n |-> EnumValue(i)] >> : n \in 0..MaxEnum }

\* every combination of the keys the dispatch of schema_to_ast_node reads
DispatchSchemas ==
    { [ id |-> <<>>, type |-> ty, enum |-> en, enumDescriptions |-> <<>>,
        const |-> co, ref |-> re, oneOf |-> oo, properties |-> pr[1],
        required |-> <<>>, additionalProperties |-> pr[2],
        patternProperties |-> pp, items |-> it ] :
      ty \in {"absent", "string", "number", "integer", "boolean", "null",
              "object", "array"},
      en \in EnumChoices,
      co \in { <<>>, <<StrVal(<<"x">>)>>, <<IntVal(<<"1">>)>>,
               <<BoolVal(<<"T","r","u","e">>)>> },
      re \in { <<>>, <<ref_T>> },
      oo \in { <<>>, << <<>> >>,
               << <<TypeSchema("string"), RefSchema(ref_Foo)>> >> },
      pr \in { << <<>>, FALSE >>,
               << << <<Item(k_foo, TypeSchema("string"))>> >>, FALSE >>,
               << << <<Item(k_foo, TypeSchema("string"))>> >>, TRUE >> },
      pp \in { <<>>,
               << <<Item(k_foo, TypeSchema("string")),
                    Item(k_bar, RefSchema(ref_Foo))>> >> },
      it \in { <<>>, <<RefSchema(ref_Foo)>> } }

NestedFoo == ObjectSchema(<<Item(k_bar, TypeSchema("string"))>>)

\* {'type': 'number', 'enum': [1, 2]}, with enumDescriptions or without
NumberEnum(descriptions) ==
    [TypeSchema("number") EXCEPT
        !.enum = << <<IntVal(<<"1">>), IntVal(<<"2">>)>> >>,
        !.enumDescriptions = descriptions]

\* a number enum on its own, as a property, as the items of an array and
\* as a member of oneOf
NumberEnumSchemas ==
    UNION { { NumberEnum(d),
              ObjectSchema(<<Item(k_bar, NestedFoo), Item(k_foo, NumberEnum(d))>>),
              [TypeSchema("array") EXCEPT !.items = <<NumberEnum(d)>>],
              [EmptySchema EXCEPT !.oneOf =
                  << <<TypeSchema("string"), NumberEnum(d)>> >>] } :
            d \in { <<>>, << << <<"O","n","e">>, <<"T","w","o">> >> >> } }

\* the descriptions of the sampled enums: plain, a keyword once PascalCased,
\* with a separator, with a leading underscore, and only an underscore
DescriptionPool ==
    { <<"o","n","e">>, <<"n","o","n","e">>, <<"a"," ","b">>, <<"_","x">>,
      <<s_underscore>> }

\* {'type': 'integer', 'enum': [...], 'enumDescriptions': [...]}; zip pairs
\* the two lists up to the shorter one
DescribedEnumSchemas ==
    { [TypeSchema("integer") EXCEPT
          !.enum = << [i \in 1..n |-> EnumValue(i)] >>,
          !.enumDescriptions = <<ds>>] :
        ds \in SeqsUpTo(DescriptionPool, MaxEnum), n \in 1..MaxEnum }

\* the inputs of one translator call
TranslateInputs ==
    { WithId(s, id_T) : s \in ClassSchemas \cup DispatchSchemas \cup NumberEnumSchemas
                               \cup DescribedEnumSchemas }

\* top-level definitions fed to one builder, one after the other
TopLevelBodies == {
    ObjectSchema(<<Item(k_foo, NestedFoo)>>),
    [ObjectSchema(<<Item(k_foo, NestedFoo), Item(k_t, NestedFoo)>>)
        EXCEPT !.required = << <<k_t>> >>],
    [ObjectSchema(<<Item(k_foo, TypeSchema("string"))>>)
        EXCEPT !.required = << <<k_foo>> >>],
    [ObjectSchema(<<Item(k_foo, NestedFoo),
                    Item(k_bar, [TypeSchema("number") EXCEPT
                                    !.enum = << <<IntVal(<<"1">>)>> >>])>>)
        EXCEPT !.required = << <<k_foo>> >>],
    RefSchema(ref_Foo),
    RefSchema(ref_T),
    [TypeSchema("array") EXCEPT !.items = <<RefSchema(ref_Foo)>>],
    [TypeSchema("array") EXCEPT !.items = <<NestedFoo>>],
    [EmptySchema EXCEPT !.oneOf = << <<RefSchema(ref_Foo), RefSchema(ref_T)>> >>],
    TypeSchema("string"),
    [TypeSchema("integer") EXCEPT
        !.enum = << <<IntVal(<<"0">>), IntVal(<<"1">>)>> >>,
        !.enumDescriptions = << << <<"z","e","r","o">>, <<"o","n","e">> >> >>] }

TopLevelSchemas == { WithId(s, id) : s \in TopLevelBodies, id \in {id_T, id_Foo} }

-----------------------------------------------------------------------------
(* The builder driven directly: add_schema_to_top_level_declaration calls  *)
(* on one DataClassBuilder.                                                *)

\* the builder the variables hold, no exception propagating
Builder == [class_dict |-> class_dict, import_statements |-> import_statements,
            assigned |-> assigned, err |-> ""]

\* a record of one translator call
CallRecord(n, op, identifier, schema, is_top_level, node, err) ==
    [n |-> n, op |-> op, identifier |-> identifier, schema |-> schema,
     is_top_level |-> is_top_level, node |-> node, err |-> err]

NoSchemas == [document |-> [schema |-> EmptySchema, definitions |-> <<>>],
              fileFormat |-> [schema |-> EmptySchema, definitions |-> <<>>],
              meta |-> [schema |-> EmptySchema, definitions |-> <<>>],
              user |-> [schema |-> EmptySchema, definitions |-> <<>>]]

\* what the file at `path` may hold
FileContent(state, module) == [state |-> state, module |-> module]
NoFile == FileContent("absent", NoNode)
\* open(path, 'w'): the file exists and is empty
Truncated == FileContent("empty", NoNode)
NoTarget == [content |-> NoFile, before |-> NoFile]

\* no call of get_schemas
NoFetch == [pc |-> "idle", version |-> <<>>, registry |-> 0,
            tarball |-> [download |-> "", archive |-> "", files |-> {},
                         meta |-> ""],
            temp_dir |-> "none", read |-> <<>>, err |-> ""]

GenerateIdle ==
    /\ pc = "idle" /\ schemas = NoSchemas /\ definitions = <<>>
    /\ all_classes = <<>> /\ all_definitions = <<>>
    /\ class_map = <<>> /\ module_ast = NoNode /\ outputs = <<>>
    /\ target_file = NoTarget /\ fetch = NoFetch

\* no call of the emitted to_object
NoDecode == [n |-> 0, obj |-> <<>>, class_map |-> <<>>, result |-> <<>>]

\* file.py lines 17-22: no SketchFile held
NoSketch == [filepath |-> <<>>, contents |-> <<>>, cached_id |-> <<>>]

\* no call of from_file or to_file
NoFileCall == [n |-> 0, op |-> "none", path |-> <<>>, keep |-> FALSE, err |-> "",
               before |-> <<>>, held |-> NoSketch, loaded |-> FALSE, prev |-> <<>>,
               zips |-> <<>>, edits |-> <<>>, held_edits |-> <<>>]

FilesIdle == disk = <<>> /\ sketch = NoSketch /\ file_call = NoFileCall

\* nothing but the generator runs
OthersIdle == decoded = NoDecode /\ FilesIdle

EmptyBuilder ==
    /\ class_dict = NewBuilder.class_dict
    /\ import_statements = NewBuilder.import_statements
    /\ assigned = NewBuilder.assigned

Init ==
    /\ EmptyBuilder
    /\ last_call = CallRecord(0, "none", <<>>, EmptySchema, TRUE, NoNode, "")
    /\ GenerateIdle
    /\ OthersIdle

SetBuilder(st) ==
    /\ class_dict' = st.class_dict
    /\ import_statements' = st.import_statements
    /\ assigned' = st.assigned

\* builder.add_schema_to_top_level_declaration(schema); an exception leaves
\* the builder as the call had changed it so far
AddSchema(schema) ==
    /\ pc = "idle"
    /\ last_call.n < MaxCalls
    /\ LET r == add_schema_to_top_level_declaration(Builder, schema) IN
       /\ SetBuilder(r.st)
       /\ last_call' = CallRecord(last_call.n + 1,
                           "add_schema_to_top_level_declaration",
                           extract_id(schema.id[1]), schema, TRUE, r.node, r.st.err)
    /\ UNCHANGED <<generate_vars, other_vars>>

Next == \E schema \in TopLevelSchemas : AddSchema(schema)

Spec == Init /\ [][Next]_vars

-----------------------------------------------------------------------------
(* One translator call on a fresh builder, for every sampled input.        *)

InitTranslate ==
    /\ EmptyBuilder
    /\ \E schema \in TranslateInputs, is_top_level \in BOOLEAN :
          last_call = CallRecord(0, "none", extract_id(schema.id[1]), schema,
                                 is_top_level, NoNode, "")
    /\ GenerateIdle
    /\ OthersIdle

\* builder.schema_to_ast_node(identifier, schema, is_top_level)
CallSchemaToAstNode ==
    /\ last_call.n = 0
    /\ LET r == schema_to_ast_node(Builder, last_call.identifier,
                                   last_call.schema, last_call.is_top_level) IN
       /\ SetBuilder(r.st)
       /\ last_call' = [last_call EXCEPT !.n = 1, !.op = "schema_to_ast_node",
                                         !.node = r.node, !.err = r.st.err]
    /\ UNCHANGED <<generate_vars, other_vars>>

\* builder.add_schema_to_top_level_declaration(schema)
CallAddSchema ==
    /\ last_call.n = 0
    /\ last_call.is_top_level
    /\ LET r == add_schema_to_top_level_declaration(Builder, last_call.schema) IN
       /\ SetBuilder(r.st)
       /\ last_call' = [last_call EXCEPT !.n = 1,
                            !.op = "add_schema_to_top_level_declaration",
                            !.node = r.node, !.err = r.st.err]
    /\ UNCHANGED <<generate_vars, other_vars>>

NextTranslate == CallSchemaToAstNode \/ CallAddSchema

SpecTranslate == InitTranslate /\ [][NextTranslate]_vars

-----------------------------------------------------------------------------
(* generate() run on sampled schema bundles, up to MaxRuns times each.     *)

k_A == <<"A">>
k_B == <<"B">>
k_C == <<"C">>
k_M == <<"M">>
k_N == <<"N">>
k_E == <<"E">>
k_P == <<"P">>
k_Foo == <<"F","o","o">>
k_D == <<"D">>
k_Q == <<"Q">>

\* a definition that is a layer, a group and an object: it has frame,
\* do_objectID, layers and a `_class` constant
LayerSchema(key, const) ==
    WithId(ObjectSchema(<<
        Item(L.u_class, ConstSchema(const)),
        Item(L.do_objectID, TypeSchema("string")),
        Item(L.frame, RefSchema(<<s_hash>> \o k_E)),
        Item(L.layers,
             [TypeSchema("array") EXCEPT !.items =
                << [EmptySchema EXCEPT !.oneOf =
                       << <<RefSchema(<<s_hash>> \o k_A),
                            RefSchema(<<s_hash>> \o k_C)>> >>] >>]) >>),
        <<s_hash>> \o key)

\* the definitions a sampled schema may hold, by key
DefinitionOf(key) ==
    CASE key = k_A -> LayerSchema(k_A, StrVal(<<"x">>))
      [] key = k_B -> LayerSchema(k_B, StrVal(<<"x">>))
      [] key = k_C -> [LayerSchema(k_C, StrVal(<<"y">>))
                          EXCEPT !.required = << <<L.layers>> >>]
      [] key = k_M -> LayerSchema(k_M, IntVal(<<"1">>))
      [] key = k_N -> LayerSchema(k_N, IntVal(<<"1">>))
      [] key = k_E -> WithId(ObjectSchema(<<
                                 Item(k_foo, TypeSchema("string")),
                                 Item(k_bar,
                                      [EmptySchema EXCEPT !.oneOf =
                                          << <<RefSchema(<<s_hash>> \o k_A),
                                               RefSchema(<<s_hash>> \o k_C)>> >>]),
                                 Item(<<s_underscore>> \o k_t,
                                      [EmptySchema EXCEPT !.oneOf =
                                          << <<RefSchema(<<s_hash>> \o k_A),
                                               RefSchema(<<s_hash>> \o k_C)>> >>]) >>),
                             <<s_hash>> \o k_E)
      \* a layer with a nested object under `foo`, and an object `Foo` with a
      \* nested object under `bar`
      [] key = k_P -> [LayerSchema(k_P, StrVal(<<"p">>))
                          EXCEPT !.properties[1] = Append(@, Item(k_foo, NestedFoo))]
      [] key = k_Foo -> WithId(ObjectSchema(<<Item(k_bar, NestedFoo)>>),
                               <<s_hash>> \o k_Foo)
      \* a `_class` constant without `type`, and one with
      \* additionalProperties: true
      [] key = k_D -> WithId([EmptySchema EXCEPT !.properties =
                                 << <<Item(L.u_class,
                                           ConstSchema(StrVal(<<"d">>)))>> >>],
                             <<s_hash>> \o k_D)
      [] key = k_Q -> WithId([ObjectSchema(<<Item(L.u_class,
                                                  ConstSchema(StrVal(<<"q">>)))>>)
                                 EXCEPT !.additionalProperties = TRUE],
                             <<s_hash>> \o k_Q)
      [] OTHER -> WithId(RefSchema(<<s_hash>> \o k_A), <<s_hash>> \o k_t)

DefinitionKeys == { k_A, k_B, k_C, k_M, k_N, k_E, k_P, k_Foo, k_t, k_D, k_Q }

DefinitionLists ==
    { [i \in DOMAIN q |-> Item(q[i], DefinitionOf(q[i]))] :
          q \in { q \in SeqsUpTo(DefinitionKeys, MaxDefs) : Distinct(q) } }

\* one schema file: its own properties and its `definitions`
SchemaFile(defs) ==
    [schema |-> ObjectSchema(<<Item(k_bar, TypeSchema("string"))>>),
     definitions |-> defs]

\* the definitions of user.schema.json: none, or one under a key of the
\* document schema
UserDefinitions ==
    { <<>>, << <<Item(k_A, LayerSchema(k_A, StrVal(<<"z">>)))>> >> }

SchemaBundles ==
    { [document |-> SchemaFile(<<d>>), fileFormat |-> SchemaFile(<<>>),
       meta |-> SchemaFile(<<>>), user |-> SchemaFile(u)] :
          d \in DefinitionLists, u \in UserDefinitions }

InitGen ==
    /\ EmptyBuilder
    /\ last_call = CallRecord(0, "none", <<>>, EmptySchema, TRUE, NoNode, "")
    /\ schemas \in SchemaBundles
    /\ pc = "idle" /\ definitions = <<>>
    /\ all_classes = <<>> /\ all_definitions = <<>>
    /\ class_map = <<>> /\ module_ast = NoNode /\ outputs = <<>>
    /\ target_file = NoTarget /\ fetch = NoFetch
    /\ OthersIdle

\* what one run of generate leaves, for the order `classes`
Generated(r, classes) ==
    /\ SetBuilder(r.st)
    /\ definitions' = MergedDefinitions(schemas)
    /\ all_classes' = classes
    /\ all_definitions' = AllDefinitions(schemas, MergedDefinitions(schemas), classes)
    /\ class_map' = r.class_map
    /\ module_ast' = r.module
    /\ pc' = IF r.st.err # "" THEN "failed" ELSE "built"
    /\ last_call' = CallRecord(last_call.n + 1, "generate", <<>>, EmptySchema,
                               TRUE, NoNode, r.st.err)

\* generate.py lines 11-187: a run builds the module, or raises
Generate ==
    /\ pc \in {"idle", "done"}
    /\ Len(outputs) < MaxRuns
    /\ \E classes \in Orders(ClassSet(MergedDefinitions(schemas))) :
          Generated(generate(schemas, classes), classes)
    /\ target_file' = [target_file EXCEPT !.before = target_file.content]
    /\ UNCHANGED <<schemas, outputs, fetch, other_vars>>

\* generate.py line 189: `with open(path, 'w') as f` creates or truncates
\* the target; the argument of f.write is evaluated after it
OpenFile ==
    /\ pc = "built"
    /\ target_file' = [target_file EXCEPT !.content = Truncated]
    /\ pc' = "opened"
    /\ UNCHANGED <<builder_vars, schemas, definitions, all_classes,
                   all_definitions, class_map, module_ast, outputs, fetch,
                   other_vars>>

\* generate.py line 190: the module is unparsed and written to `path`
WriteFile ==
    /\ pc = "opened"
    /\ outputs' = Append(outputs, module_ast)
    /\ target_file' = [target_file EXCEPT !.content = FileContent("written", module_ast)]
    /\ pc' = "done"
    /\ UNCHANGED <<builder_vars, schemas, definitions, all_classes,
                   all_definitions, class_map, module_ast, fetch, other_vars>>

\* generate.py line 190: f.write raises (the text cannot be encoded in the
\* encoding of the locale, or the device fails); the with block closes f
WriteRaises ==
    /\ pc = "opened"
    /\ pc' = "failed"
    /\ last_call' = [last_call EXCEPT !.err = "UnicodeEncodeError"]
    /\ UNCHANGED <<class_dict, import_statements, assigned, schemas, definitions,
                   all_classes, all_definitions, class_map, module_ast, outputs,
                   target_file, fetch, other_vars>>

NextGen == Generate \/ OpenFile \/ WriteFile \/ WriteRaises

SpecGen == InitGen /\ [][NextGen]_vars

\* generate up to the module it builds, without the write: the first run
\* of a process
FirstGenerate == pc = "idle" /\ Generate

SpecBuild == InitGen /\ [][FirstGenerate]_vars

-----------------------------------------------------------------------------
(* The emitted to_object, called on sampled objects and class maps.  A     *)
(* Python object is [t, class]: its type and, for a dict, the value under  *)
(* '_class' (<<>> when the key is absent).                                 *)

PyObject(t, class) == [t |-> t, class |-> class]

\* what a call gives: a returned value or a raised exception
Returned(value) == [kind |-> "return", value |-> value, err |-> ""]
Raised(exc) == [kind |-> "raise", value |-> <<>>, err |-> exc]

\* class_map[obj['_class']].from_dict(obj)
FromDict(cls, obj) == [t |-> "JSONMixin", class |-> <<cls>>, from_dict |-> obj]

\* obj['_class'] in class_map.keys(): hashes the value, then compares it
\* with the str keys
InClassMapKeys(value, cm) == value.t = "str" /\ DictHas(cm, value.s)

\* generate.py lines 172-176: the to_object the generator emits
to_object(obj, cm) ==
    IF obj.t # "NoneType" /\ obj.t = "dict" /\ obj.class # <<>> THEN
        IF obj.class[1].t \in {"list", "dict"}
        THEN Raised("TypeError: unhashable type")
        ELSE IF InClassMapKeys(obj.class[1], cm)
        THEN Returned(FromDict(DictGet(cm, obj.class[1].s).value, obj))
        ELSE Returned(obj)
    ELSE Returned(obj)

\* file_format_py/scripts/generate.py lines 175-179: the to_object the
\* other generator emits; obj.keys() is called on whatever is not None
to_object_file_format_py(obj, cm) ==
    IF obj.t = "NoneType" THEN Returned(PyObject("NoneType", <<>>))
    ELSE IF obj.t # "dict"
    THEN Raised("AttributeError: object has no attribute 'keys'")
    ELSE IF obj.class = <<>> THEN Returned(PyObject("NoneType", <<>>))
    ELSE IF obj.class[1].t \in {"list", "dict"}
    THEN Raised("TypeError: unhashable type")
    ELSE IF InClassMapKeys(obj.class[1], cm)
    THEN Returned(FromDict(DictGet(cm, obj.class[1].s).value, obj))
    ELSE Returned(PyObject("NoneType", <<>>))

\* sampled arguments: None, non-dicts, dicts without '_class', dicts whose
\* '_class' is a str, an int or a list
DecodeObjects ==
    { PyObject(ty, <<>>) : ty \in {"NoneType", "str", "int", "list", "dict"} }
    \cup { PyObject("dict", <<v>>) :
               v \in { StrVal(<<"x">>), StrVal(<<"y">>), StrVal(<<"w">>),
                       IntVal(<<"1">>), Val("list", <<>>) } }

\* sampled class maps, as build_class_map leaves them
DecodeClassMaps ==
    { <<>>,
      << [key |-> <<"x">>, value |-> k_A] >>,
      << [key |-> <<"y">>, value |-> k_C] >>,
      << [key |-> <<"x">>, value |-> k_A], [key |-> <<"y">>, value |-> k_C] >>,
      << [key |-> <<"y">>, value |-> k_C], [key |-> <<"x">>, value |-> k_B] >>,
      << [key |-> <<"1">>, value |-> k_M] >> }

InitDecode ==
    /\ EmptyBuilder
    /\ last_call = CallRecord(0, "none", <<>>, EmptySchema, TRUE, NoNode, "")
    /\ GenerateIdle
    /\ FilesIdle
    /\ \E obj \in DecodeObjects, cm \in DecodeClassMaps :
          decoded = [n |-> 0, obj |-> obj, class_map |-> cm, result |-> <<>>]

\* to_object(obj) of the module sketch_file_format/scripts/generate.py emits
CallToObject ==
    /\ decoded.n = 0
    /\ decoded' = [decoded EXCEPT !.n = 1,
                      !.result = <<to_object(decoded.obj, decoded.class_map)>>]
    /\ UNCHANGED <<builder_vars, generate_vars, file_vars>>

\* to_object(obj) of the module file_format_py/scripts/generate.py emits
CallToObjectFileFormatPy ==
    /\ decoded.n = 0
    /\ decoded' = [decoded EXCEPT !.n = 2,
                      !.result = <<to_object_file_format_py(decoded.obj,
                                                            decoded.class_map)>>]
    /\ UNCHANGED <<builder_vars, generate_vars, file_vars>>

NextDecode == CallToObject \/ CallToObjectFileFormatPy

SpecDecode == InitDecode /\ [][NextDecode]_vars

-----------------------------------------------------------------------------
(* sketch_file/file.py: from_file and to_file on a file system.  A JSON    *)
(* value is [t, s, items]; the entries of a dict are [key, value] in       *)
(* insertion order.  A zip archive is the sequence of its members          *)
(* [name, data], a name possibly more than once, as zipfile writes them.   *)

\* string literals of file.py
F == [
    document_json |-> <<"d","o","c","u","m","e","n","t",".","j","s","o","n">>,
    meta_json |-> <<"m","e","t","a",".","j","s","o","n">>,
    user_json |-> <<"u","s","e","r",".","j","s","o","n">>,
    json |-> <<".","j","s","o","n">>,
    pages |-> <<"p","a","g","e","s">>,
    workspace |-> <<"w","o","r","k","s","p","a","c","e">>,
    u_ref |-> <<"_","r","e","f">>,
    temp_sketch |-> <<"t","e","m","p",".","s","k","e","t","c","h">> ]

J(t, s, items) == [t |-> t, s |-> s, items |-> items]
JStr(s) == J("str", s, <<>>)
JList(items) == J("list", <<>>, items)
JDict(entries) == J("dict", <<>>, entries)
JScalar(t) == J(t, <<>>, <<>>)
Entry(key, value) == [key |-> key, value |-> value]

\* json.dumps(value).encode('utf-8') and json.loads(data): bytes that are
\* not JSON hold no value
Dumps(value) == [json |-> <<value>>]
IsJson(data) == data.json # <<>>
Loads(data) == data.json[1]
Member(name, data) == [name |-> name, data |-> data]

\* str.endswith, str.rfind (0 when absent), os.path.basename / dirname / join
EndsWith(s, p) == Len(s) >= Len(p) /\ SubSeq(s, Len(s) - Len(p) + 1, Len(s)) = p
RFind(s, c) ==
    IF \E i \in DOMAIN s : s[i] = c
    THEN CHOOSE i \in DOMAIN s : s[i] = c /\ \A j \in (i + 1)..Len(s) : s[j] # c
    ELSE 0
basename(path) == SubSeq(path, RFind(path, "/") + 1, Len(path))
RECURSIVE RStripSlashes(_)
RStripSlashes(s) ==
    IF s # <<>> /\ s[Len(s)] = "/" THEN RStripSlashes(SubSeq(s, 1, Len(s) - 1))
    ELSE s
dirname(path) ==
    LET head == SubSeq(path, 1, RFind(path, "/")) IN
    IF \A i \in DOMAIN head : head[i] = "/" THEN head ELSE RStripSlashes(head)
join(a, b) ==
    IF StartsWith(b, <<"/">>) THEN b
    ELSE IF a = <<>> \/ EndsWith(a, <<"/">>) THEN a \o b
    ELSE a \o <<"/">> \o b

\* str(Path(name).with_suffix('')): the last suffix is the part from the
\* last dot, unless that dot is the first or the last character
with_suffix_empty(name) ==
    IF 1 < RFind(name, ".") /\ RFind(name, ".") < Len(name)
    THEN SubSeq(name, 1, RFind(name, ".") - 1)
    ELSE name

\* zipfile: the names in order, and read(name): the last member of that name
namelist(members) == [i \in DOMAIN members |-> members[i].name]
HasMember(members, name) == \E i \in DOMAIN members : members[i].name = name
ZipRead(members, name) ==
    members[CHOOSE i \in DOMAIN members :
                /\ members[i].name = name
                /\ \A j \in (i + 1)..Len(members) : members[j].name # name].data

\* the file system: an absent path, a file that is no zip, a zip archive
Absent == [kind |-> "absent", members |-> <<>>]
PlainFile == [kind |-> "file", members |-> <<>>]
ZipFile(members) == [kind |-> "zip", members |-> members]
FileAt(d, path) == IF DictHas(d, path) THEN DictGet(d, path).value ELSE Absent
WriteAt(d, path, file) == DictSet(d, Entry(path, file))

\* ContentsDocument.from_dict / to_dict, Page.from_dict / to_dict,
\* Meta.from_dict / to_dict of the generated dataclasses
FromDictAs(cls, d) == [cls |-> cls, d |-> d]
ToDict(o) == o.d
PagesOf(document) == [i \in DOMAIN DictGet(document.d.items, F.pages).value.items |->
                         FromDictAs("Page", DictGet(document.d.items, F.pages).value.items[i])]
PageId(page) == DictGet(page.d.items, L.do_objectID).value.s

SketchFile(filepath, document, meta, user, workspace) ==
    [filepath |-> filepath,
     contents |-> <<[document |-> document, meta |-> meta, user |-> user,
                     workspace |-> workspace]>>,
     \* line 22: __do_objectID, None
     cached_id |-> <<>>]

FileResult(err, obj) == [err |-> err, obj |-> obj]

\* for page in document_dict['pages']: what the loop iterates over
IterItems(v) ==
    IF v.t = "list" THEN v.items
    ELSE IF v.t = "dict" THEN [i \in DOMAIN v.items |-> JStr(v.items[i].key)]
    ELSE [i \in DOMAIN v.s |-> JStr(<<v.s[i]>>)]

\* file.py lines 46-51: the page files the references name : [err, pages]
RECURSIVE ExpandPages(_, _, _)
ExpandPages(members, refs, pages) ==
    IF refs = <<>> THEN [err |-> "", pages |-> pages]
    ELSE IF ~(Head(refs).t = "dict" /\ DictHas(Head(refs).items, F.u_ref))
    THEN [err |-> "ValueError: document.json is not valid", pages |-> pages]
    ELSE IF ~HasMember(members, DictGet(Head(refs).items, F.u_ref).value.s \o F.json)
    THEN [err |-> "KeyError: There is no item named pages in the archive",
          pages |-> pages]
    ELSE ExpandPages(members, Tail(refs),
             Append(pages, Loads(ZipRead(members,
                 DictGet(Head(refs).items, F.u_ref).value.s \o F.json))))

\* file.py lines 54-57: workspace/*.json by basename without suffix
RECURSIVE ReadWorkspace(_, _, _)
ReadWorkspace(members, names, acc) ==
    IF names = <<>> THEN acc
    ELSE IF StartsWith(Head(names), F.workspace \o <<"/">>) /\ EndsWith(Head(names), F.json)
    THEN ReadWorkspace(members, Tail(names),
             DictSet(acc, Entry(with_suffix_empty(basename(Head(names))),
                                Loads(ZipRead(members, Head(names))))))
    ELSE ReadWorkspace(members, Tail(names), acc)

\* file.py lines 52-60, the pages being expanded
LoadContents(file_path, members, document_dict, pages) ==
    IF pages.err # "" THEN FileResult(pages.err, NoSketch)
    ELSE IF ~HasMember(members, F.meta_json)
    THEN FileResult("KeyError: There is no item named 'meta.json' in the archive",
                    NoSketch)
    ELSE IF ~HasMember(members, F.user_json)
    THEN FileResult("KeyError: There is no item named 'user.json' in the archive",
                    NoSketch)
    ELSE FileResult("",
             SketchFile(file_path,
                 FromDictAs("ContentsDocument",
                     JDict(DictSet(document_dict.items,
                                   Entry(F.pages, JList(pages.pages))))),
                 FromDictAs("Meta", Loads(ZipRead(members, F.meta_json))),
                 Loads(ZipRead(members, F.user_json)),
                 ReadWorkspace(members, namelist(members), <<>>)))

\* file.py lines 43-51, document.json being read
LoadDocument(file_path, members, document_dict) ==
    IF ~(document_dict.t = "dict" /\ DictHas(document_dict.items, F.pages))
    THEN FileResult("ValueError: document.json is not valid", NoSketch)
    ELSE IF DictGet(document_dict.items, F.pages).value.t \notin {"list", "dict", "str"}
    THEN FileResult("TypeError: object is not iterable", NoSketch)
    ELSE LoadContents(file_path, members, document_dict,
             ExpandPages(members,
                         IterItems(DictGet(document_dict.items, F.pages).value),
                         <<>>))

\* file.py lines 32-60: from_file(file_path) on the file system d : [err, obj]
from_file(d, file_path) ==
    IF FileAt(d, file_path).kind = "absent"
    THEN FileResult("FileNotFoundError", NoSketch)
    ELSE IF FileAt(d, file_path).kind # "zip"
    THEN FileResult("ValueError: not a zip file", NoSketch)
    ELSE IF ~HasMember(FileAt(d, file_path).members, F.document_json)
    THEN FileResult("KeyError: There is no item named 'document.json' in the archive",
                    NoSketch)
    ELSE LoadDocument(file_path, FileAt(d, file_path).members,
                      Loads(ZipRead(FileAt(d, file_path).members, F.document_json)))

\* file.py lines 81-90: one archive member per page, named by its
\* do_objectID
PageMembers(pages) ==
    [i \in DOMAIN pages |->
        Member(join(F.pages, PageId(pages[i]) \o F.json), Dumps(ToDict(pages[i])))]

\* file.py lines 86-90: FileRef(...).to_dict() of each page
PageRefs(pages) ==
    [i \in DOMAIN pages |->
        JDict(<< Entry(L.u_class, JStr(<<"M","S","J","S","O","N","F","i","l","e",
                                         "R","e","f","e","r","e","n","c","e">>)),
                 Entry(<<"_","r","e","f","_","c","l","a","s","s">>,
                       JStr(<<"M","S","I","m","m","u","t","a","b","l","e",
                              "P","a","g","e">>)),
                 Entry(F.u_ref, JStr(F.pages \o <<"/">> \o PageId(pages[i]))) >>)]

\* file.py lines 91-96: one member per workspace entry
WorkspaceMembers(workspace) ==
    [i \in DOMAIN workspace |->
        Member(join(F.workspace, workspace[i].key \o F.json),
               Dumps(workspace[i].value))]

\* file.py lines 80-106: the members written before the static files
NewMembers(contents) ==
    PageMembers(PagesOf(contents.document))
    \o WorkspaceMembers(contents.workspace)
    \o << Member(F.document_json,
                 Dumps(JDict(DictSet(ToDict(contents.document).items,
                                     Entry(F.pages,
                                           JList(PageRefs(PagesOf(contents.document)))))))),
          Member(F.user_json, Dumps(contents.user)),
          Member(F.meta_json, Dumps(ToDict(contents.meta))) >>

\* file.py lines 109-111: the members of the backup whose name the new
\* archive does not hold yet
RECURSIVE CopyStatic(_, _)
CopyStatic(members, backup) ==
    IF backup = <<>> THEN members
    ELSE IF HasMember(members, Head(backup).name)
    THEN CopyStatic(members, Tail(backup))
    ELSE CopyStatic(Append(members, Head(backup)), Tail(backup))

WriteResult(err, d) == [err |-> err, disk |-> d]

\* file.py lines 107-111, `backup` being what shutil.copy left at
\* backup_sketch_path
WithStaticFiles(d, file_path, members, backup) ==
    IF backup.kind = "absent"
    THEN WriteResult("FileNotFoundError: temp.sketch",
                     WriteAt(d, file_path, ZipFile(members)))
    ELSE IF backup.kind # "zip"
    THEN WriteResult("BadZipFile: File is not a zip file",
                     WriteAt(d, file_path, ZipFile(members)))
    ELSE WriteResult("", WriteAt(d, file_path,
                                 ZipFile(CopyStatic(members, backup.members))))

\* file.py lines 77-113, the target path being chosen
WriteArchive(d, obj, file_path, keep_static_file) ==
    IF dirname(file_path) = <<>>
    THEN WriteResult("FileNotFoundError: os.makedirs('')", d)
    ELSE IF keep_static_file
    THEN WithStaticFiles(d, file_path, NewMembers(obj.contents[1]),
                         FileAt(d, obj.filepath))
    ELSE WriteResult("", WriteAt(d, file_path, ZipFile(NewMembers(obj.contents[1]))))

\* file.py lines 63-113: to_file(obj, alter_file_path, keep_static_file) on
\* the file system d : [err, disk]; alter_file_path is <<>> for None
to_file(d, obj, alter_file_path, keep_static_file) ==
    WriteArchive(d, obj,
                 IF alter_file_path = <<>> THEN obj.filepath ELSE alter_file_path[1],
                 keep_static_file)

\* a zipfile.ZipFile object a call created: the file it is on, its mode and
\* whether it is closed when the call returns or raises
ZipHandle(file, mode, closed) == [file |-> file, mode |-> mode, closed |-> closed]

\* file.py line 42: `zip_file = zipfile.ZipFile(file_path)`, neither in a
\* with block nor closed. When the call raises, the traceback keeps the frame
\* and the archive open; when it returns, the archive is closed only if the
\* interpreter collects the object at once (`collected`).
from_file_zips(d, file_path, err, collected) ==
    IF FileAt(d, file_path).kind # "zip" THEN <<>>
    ELSE << ZipHandle("target", "r", IF err # "" THEN FALSE ELSE collected) >>

\* file.py lines 79 and 108: both archives are opened by a with block; the
\* constructor closes a backup that is no zip itself, and opens nothing when
\* the backup is absent
to_file_zips(d, obj, file_path, keep_static_file) ==
    IF dirname(file_path) = <<>> THEN <<>>
    ELSE << ZipHandle("target", "w", TRUE) >>
         \o (IF keep_static_file /\ FileAt(d, obj.filepath).kind # "absent"
             THEN << ZipHandle("backup", "r", TRUE) >> ELSE <<>>)

-----------------------------------------------------------------------------
(* schema_fetcher.py: get_schemas and the temporary directory of           *)
(* get_package_tarball.  fetch.temp_dir is "none" before tempfile.mkdtemp, *)
(* "exists" after it and "removed" after shutil.rmtree.                    *)

\* the files get_schemas requires, in the order of its require calls
SchemaFiles ==
    << "file-format.schema.json", "document.schema.json", "meta.schema.json",
       "page.schema.json", "user.schema.json" >>

\* the Package fetch_package_from_registry returns
PackageSample ==
    [name |-> "@sketch-hq/sketch-file-format",
     dist_tags |-> <<Entry("latest", "1")>>,
     versions |-> {"1", "2"}]

\* schema_fetcher.py line 56
ParsedVersion(package, version) ==
    IF DictHas(package.dist_tags, version)
    THEN DictGet(package.dist_tags, version).value
    ELSE version

\* the try block is left by an exception and the finally clause is skipped
ExitContextUnlessRaised(f, exc) ==
    [f EXCEPT !.temp_dir = IF exc = "" THEN "removed" ELSE @,
              !.pc = IF exc = "" THEN "returned" ELSE "raised",
              !.err = exc]
\* schema_fetcher.py lines 59-70: the try block is left, by the end of the
\* caller's block (exc = "") or by an exception, and finally removes temp_dir
ExitContext(f, exc) ==
    [f EXCEPT !.temp_dir = "removed",
              !.pc = IF exc = "" THEN "returned" ELSE "raised",
              !.err = exc]

\* schema_fetcher.py lines 58-68, after mkdtemp: download and unpack, then
\* yield to the caller's block
DownloadAndUnpack(f) ==
    IF f.tarball.download # "ok" THEN ExitContext(f, "ConnectionError")
    ELSE IF f.tarball.archive # "tgz" THEN ExitContext(f, "ReadError")
    ELSE [f EXCEPT !.pc = "in_block"]

\* schema_fetcher.py lines 54-68: get_package_tarball up to its yield
get_package_tarball(f, package) ==
    IF ParsedVersion(package, f.version) \notin package.versions
    THEN [f EXCEPT !.pc = "raised", !.err = "KeyError"]
    ELSE DownloadAndUnpack([f EXCEPT !.temp_dir = "exists"])

\* schema_fetcher.py lines 86-88: require(name) inside the caller's block
require(f, name) ==
    IF f.temp_dir = "exists" /\ name \in f.tarball.files
    THEN [f EXCEPT !.read = Append(@, name)]
    ELSE ExitContext(f, "FileNotFoundError")

\* schema_fetcher.py lines 95-106: the Schemas value is built and returned
\* from inside the block
ReturnSchemas(f) ==
    IF f.tarball.meta = "no_properties" THEN ExitContext(f, "AttributeError")
    ELSE ExitContext(f, "")

TarballSamples ==
    { [download |-> d, archive |-> a, files |-> fs, meta |-> m] :
          d \in {"ok", "error"}, a \in {"tgz", "garbage"},
          fs \in { {SchemaFiles[i] : i \in DOMAIN SchemaFiles} \ miss :
                      miss \in {{}} \cup { {SchemaFiles[i]} : i \in DOMAIN SchemaFiles } },
          m \in {"enum", "no_enum", "no_properties"} }

InitFetch ==
    /\ EmptyBuilder
    /\ last_call = CallRecord(0, "none", <<>>, EmptySchema, TRUE, NoNode, "")
    /\ pc = "idle" /\ schemas = NoSchemas /\ definitions = <<>>
    /\ all_classes = <<>> /\ all_definitions = <<>>
    /\ class_map = <<>> /\ module_ast = NoNode /\ outputs = <<>>
    /\ target_file = NoTarget
    /\ \E version \in {"latest", "1", "2", "9"}, status \in {200, 404},
          tarball \in TarballSamples :
          fetch = [NoFetch EXCEPT !.version = version, !.registry = status,
                                  !.tarball = tarball]
    /\ OthersIdle

FetchUnchanged ==
    UNCHANGED <<builder_vars, pc, schemas, definitions, all_classes,
                all_definitions, class_map, module_ast, outputs, target_file,
                other_vars>>

\* schema_fetcher.py lines 31-35 and 85: the registry answers
FetchPackage ==
    /\ fetch.pc = "idle"
    /\ fetch' = IF fetch.registry # 200
                THEN [fetch EXCEPT !.pc = "raised", !.err = "ValueError"]
                ELSE [fetch EXCEPT !.pc = "fetched"]
    /\ FetchUnchanged

\* schema_fetcher.py line 86: `with get_package_tarball(package, version)`
EnterTarball ==
    /\ fetch.pc = "fetched"
    /\ fetch' = get_package_tarball(fetch, PackageSample)
    /\ FetchUnchanged

\* schema_fetcher.py lines 90-94: the next require call of the block
Require ==
    /\ fetch.pc = "in_block"
    /\ Len(fetch.read) < Len(SchemaFiles)
    /\ fetch' = require(fetch, SchemaFiles[Len(fetch.read) + 1])
    /\ FetchUnchanged

\* schema_fetcher.py lines 95-106: the block ends with the return
Return ==
    /\ fetch.pc = "in_block"
    /\ Len(fetch.read) = Len(SchemaFiles)
    /\ fetch' = ReturnSchemas(fetch)
    /\ FetchUnchanged

NextFetch == FetchPackage \/ EnterTarball \/ Require \/ Return

SpecFetch == InitFetch /\ [][NextFetch]_vars

-----------------------------------------------------------------------------
(* from_file and to_file called on sampled file systems.                   *)

\* paths: two in a directory, one bare file name
P_a == <<"d","/","a">>
P_b == <<"d","/","b">>
P_c == <<"c">>
Paths == {P_a, P_b, P_c}

k_w == <<"w">>
PageDict(id, name) ==
    JDict(<<Entry(L.do_objectID, JStr(id)), Entry(<<"n">>, JStr(name))>>)
PageRef(ref) == JDict(<<Entry(F.u_ref, JStr(ref))>>)
DocumentDict(pages) ==
    JDict(<<Entry(<<"k">>, JScalar("int")), Entry(F.pages, pages)>>)
MetaJson == Member(F.meta_json, Dumps(JDict(<<Entry(<<"v">>, JScalar("int"))>>)))
UserJson == Member(F.user_json, Dumps(JDict(<<Entry(<<"u">>, JScalar("float"))>>)))
\* a member that is no JSON: an embedded image
StaticMember == Member(<<"i","m","g">>, [json |-> <<>>])

\* archives with page files A and B holding the do_objectIDs id1 and id2,
\* and the workspace members `ws`
PagedArchive(id1, id2, ws) ==
    << Member(F.document_json,
              Dumps(DocumentDict(JList(<<PageRef(join(F.pages, k_A)),
                                         PageRef(join(F.pages, k_B))>>)))),
       Member(join(F.pages, k_A \o F.json), Dumps(PageDict(id1, <<"1">>))),
       Member(join(F.pages, k_B \o F.json), Dumps(PageDict(id2, <<"2">>))) >>
    \o ws \o <<MetaJson, UserJson, StaticMember>>

WorkspaceSamples ==
    { <<>>,
      << Member(join(F.workspace, k_w \o F.json), Dumps(JStr(<<"1">>))) >>,
      << Member(join(F.workspace, <<"a","/">> \o k_w \o F.json), Dumps(JStr(<<"2">>))),
         Member(join(F.workspace, F.json), Dumps(JStr(<<"3">>))) >> }

\* what document.json may hold under 'pages'
PagesValues ==
    { JList(<<>>), JDict(<<>>), JStr(<<>>), JStr(<<"a","b">>),
      JDict(<<Entry(<<"a">>, JScalar("int"))>>), JScalar("NoneType"),
      JScalar("int"), JList(<<JStr(<<"a">>)>>),
      JList(<<PageRef(join(F.pages, k_C))>>) }

ArchiveSamples ==
    { PagedArchive(id1, id2, ws) :
          id1 \in {k_A}, id2 \in {k_A, k_B}, ws \in WorkspaceSamples }
    \cup { << Member(F.document_json, Dumps(DocumentDict(v))), MetaJson, UserJson >> :
              v \in PagesValues }
    \cup { <<MetaJson, UserJson>>,
           << Member(F.document_json, Dumps(JList(<<>>))), MetaJson, UserJson >>,
           << Member(F.document_json, Dumps(DocumentDict(JList(<<>>)))), UserJson >> }

FileSamples == {PlainFile} \cup { ZipFile(a) : a \in ArchiveSamples }

\* the contents a program builds itself, as ToFileTest.setUp does
BuiltContents ==
    from_file(<<Entry(P_a, ZipFile(PagedArchive(k_A, k_B, <<>>)))>>, P_a).obj.contents

PrevCall == [op |-> file_call.op, path |-> file_call.path, err |-> file_call.err,
             keep |-> file_call.keep, held |-> file_call.held]

InitFile ==
    /\ EmptyBuilder
    /\ last_call = CallRecord(0, "none", <<>>, EmptySchema, TRUE, NoNode, "")
    /\ GenerateIdle
    /\ decoded = NoDecode
    /\ \E path \in {P_a, P_c}, f \in FileSamples : disk = <<Entry(path, f)>>
    /\ sketch = NoSketch
    /\ file_call = NoFileCall

\* sketch = from_file(path); a raised exception leaves the object held
FromFile(path) ==
    /\ file_call.n < MaxFileCalls
    /\ \E collected \in BOOLEAN :
       LET r == from_file(disk, path) IN
       /\ sketch' = IF r.err = "" THEN r.obj ELSE sketch
       /\ file_call' = [n |-> file_call.n + 1, op |-> "from_file", path |-> path,
                        keep |-> FALSE, err |-> r.err, before |-> disk,
                        held |-> sketch,
                        loaded |-> IF r.err = "" THEN TRUE ELSE file_call.loaded,
                        prev |-> <<PrevCall>>,
                        zips |-> from_file_zips(disk, path, r.err, collected),
                        edits |-> IF r.err = "" THEN <<>> ELSE file_call.edits,
                        held_edits |-> file_call.edits]
    /\ UNCHANGED <<builder_vars, generate_vars, decoded, disk>>

\* to_file(sketch, alter_file_path, keep_static_file)
ToFile(alter_file_path, keep_static_file) ==
    /\ file_call.n < MaxFileCalls
    /\ sketch # NoSketch
    /\ LET w == to_file(disk, sketch, alter_file_path, keep_static_file) IN
       /\ disk' = w.disk
       /\ file_call' = [n |-> file_call.n + 1, op |-> "to_file",
                        path |-> IF alter_file_path = <<>> THEN sketch.filepath
                                 ELSE alter_file_path[1],
                        keep |-> keep_static_file, err |-> w.err, before |-> disk,
                        held |-> sketch, loaded |-> file_call.loaded,
                        prev |-> <<PrevCall>>,
                        zips |-> to_file_zips(disk, sketch,
                                     IF alter_file_path = <<>> THEN sketch.filepath
                                     ELSE alter_file_path[1],
                                     keep_static_file),
                        edits |-> file_call.edits,
                        held_edits |-> file_call.edits]
    /\ UNCHANGED <<builder_vars, generate_vars, decoded, sketch>>

\* sketch = SketchFile(filepath=path, contents=...), built by the program
NewSketchFile(path) ==
    /\ sketch = NoSketch
    /\ file_call.n = 0
    /\ sketch' = [filepath |-> path, contents |-> BuiltContents,
                  cached_id |-> <<>>]
    /\ UNCHANGED <<builder_vars, generate_vars, decoded, disk, file_call>>

NextFile ==
    \/ \E path \in Paths : FromFile(path)
    \/ \E alter_file_path \in {<<>>} \cup { <<q>> : q \in Paths },
          keep_static_file \in BOOLEAN : ToFile(alter_file_path, keep_static_file)
    \/ \E path \in Paths : NewSketchFile(path)

SpecFile == InitFile /\ [][NextFile]_vars

-----------------------------------------------------------------------------
(* A program that changes the SketchFile it holds and reads its            *)
(* do_objectID between the calls of from_file and to_file.  The sampled    *)
(* UUIDs have UuidDigits hexadecimal digits in place of 32.                *)

UuidDigits == 1
HexDigits == <<"0","1","2","3","4","5","6","7","8","9","A","B","C","D","E","F">>
HexValue(c) == (CHOOSE i \in DOMAIN HexDigits : HexDigits[i] = c) - 1

\* UUID(s).int
RECURSIVE UuidInt(_)
UuidInt(s) ==
    IF s = <<>> THEN 0
    ELSE 16 * UuidInt(SubSeq(s, 1, Len(s) - 1)) + HexValue(s[Len(s)])

\* UUID(int=n).hex.upper(), `digits` digits wide
RECURSIVE UuidHex(_, _)
UuidHex(n, digits) ==
    IF digits = 0 THEN <<>>
    ELSE UuidHex(n \div 16, digits - 1) \o <<HexDigits[(n % 16) + 1]>>

\* x ^ y on non-negative integers
RECURSIVE Xor(_, _)
Xor(x, y) ==
    IF x = 0 THEN y ELSE IF y = 0 THEN x
    ELSE (((x % 2) + (y % 2)) % 2) + 2 * Xor(x \div 2, y \div 2)

\* file.py line 28: reduce(lambda x, y: x ^ UUID(y.do_objectID).int, pages, 0)
RECURSIVE XorPages(_, _)
XorPages(pages, x) ==
    IF pages = <<>> THEN x
    ELSE XorPages(Tail(pages), Xor(x, UuidInt(PageId(Head(pages)))))

\* file.py lines 24-29: the property do_objectID : [obj, value]
do_objectID(obj) ==
    IF obj.cached_id = <<>>
    THEN LET id == UuidHex(XorPages(PagesOf(obj.contents[1].document), 0), UuidDigits)
         IN [obj |-> [obj EXCEPT !.cached_id = <<id>>], value |-> id]
    ELSE [obj |-> obj, value |-> obj.cached_id[1]]

\* obj.contents.document.pages = pages (the pages as their dicts)
WithPages(obj, pages) ==
    [obj EXCEPT !.contents[1].document.d =
        JDict(DictSet(@.items, Entry(F.pages, JList(pages))))]
PageDicts(obj) == DictGet(obj.contents[1].document.d.items, F.pages).value.items

RemoveAt(q, i) == SubSeq(q, 1, i - 1) \o SubSeq(q, i + 1, Len(q))

\* the page a program adds or puts in the place of another
NewPage == PageDict(k_C, <<"3">>)

Edited(kind, obj) ==
    /\ sketch' = obj
    /\ file_call' = [file_call EXCEPT !.edits = Append(@, kind)]
    /\ UNCHANGED <<builder_vars, generate_vars, decoded, disk>>

CanEdit == sketch # NoSketch /\ Len(file_call.edits) < MaxEdits

\* del sketch.contents.document.pages[i]
RemovePage(i) ==
    /\ CanEdit /\ i \in DOMAIN PageDicts(sketch)
    /\ Edited("remove_page", WithPages(sketch, RemoveAt(PageDicts(sketch), i)))

\* sketch.contents.document.pages.append(page)
AddPage ==
    /\ CanEdit /\ Len(PageDicts(sketch)) < MaxProps
    /\ Edited("add_page", WithPages(sketch, Append(PageDicts(sketch), NewPage)))

\* sketch.contents.document.pages[i] = page
ReplacePage(i) ==
    /\ CanEdit /\ i \in DOMAIN PageDicts(sketch)
    /\ Edited("replace_page",
              WithPages(sketch, [PageDicts(sketch) EXCEPT ![i] = NewPage]))

\* del sketch.contents.workspace[key]
RemoveWorkspaceEntry(i) ==
    /\ CanEdit /\ i \in DOMAIN sketch.contents[1].workspace
    /\ Edited("remove_workspace",
              [sketch EXCEPT !.contents[1].workspace = RemoveAt(@, i)])

\* sketch.do_objectID
ReadObjectID ==
    /\ CanEdit
    /\ Edited("read_id", do_objectID(sketch).obj)

\* the archives the program starts from: two pages, with or without
\* workspace entries, or no page
InitEdit ==
    /\ EmptyBuilder
    /\ last_call = CallRecord(0, "none", <<>>, EmptySchema, TRUE, NoNode, "")
    /\ GenerateIdle
    /\ decoded = NoDecode
    /\ \E a \in { PagedArchive(k_A, k_B, ws) : ws \in WorkspaceSamples }
               \cup { << Member(F.document_json, Dumps(DocumentDict(JList(<<>>)))),
                         MetaJson, UserJson >> } :
           disk = <<Entry(P_a, ZipFile(a))>>
    /\ sketch = NoSketch
    /\ file_call = NoFileCall

NextEdit ==
    \/ \E path \in {P_a, P_b} : FromFile(path)
    \/ \E alter_file_path \in {<<>>, <<P_b>>}, keep_static_file \in BOOLEAN :
          ToFile(alter_file_path, keep_static_file)
    \/ \E i \in 1..(MaxProps + 1) : RemovePage(i)
    \/ AddPage
    \/ \E i \in 1..(MaxProps + 1) : ReplacePage(i)
    \/ \E i \in 1..(MaxProps + 1) : RemoveWorkspaceEntry(i)
    \/ ReadObjectID

SpecEdit == InitEdit /\ [][NextEdit]_vars

-----------------------------------------------------------------------------
(* What the properties below read off the emitted declarations.            *)

\* an object schema that is translated to a class
IsClassSchema(schema) ==
    schema.type = "object" /\ schema.properties # <<>> /\ ~schema.additionalProperties

\* a schema of the failing row of the dispatch table
IsNumberEnum(schema) == schema.type = "number" /\ schema.enum # <<>>

\* the schemas schema_to_ast_node translates while translating `schema`
TranslatedChildren(schema) ==
    IF schema.type = "object" THEN
        IF schema.properties # <<>> THEN
            IF schema.additionalProperties THEN {}
            ELSE { p.schema : p \in SeqToSet(schema.properties[1]) }
        ELSE IF schema.patternProperties # <<>>
        THEN { p.schema : p \in SeqToSet(schema.patternProperties[1]) }
        ELSE {}
    ELSE IF schema.type = "array" THEN SeqToSet(schema.items)
    ELSE IF /\ schema.type \notin {"string", "number", "integer", "boolean", "null"}
            /\ schema.const = <<>> /\ schema.ref = <<>> /\ schema.oneOf # <<>>
    THEN SeqToSet(schema.oneOf[1])
    ELSE {}

\* translating `schema` comes to a number enum
RECURSIVE ReachesNumberEnum(_)
ReachesNumberEnum(schema) ==
    \/ IsNumberEnum(schema)
    \/ \E c \in TranslatedChildren(schema) : ReachesNumberEnum(c)

\* a dataclass declaration
IsDataClass(decl) == decl.k = "ClassDef" /\ ClassBases(decl) = <<Name(L.JSONMixin)>>

\* the classes a state holds, each with the schema it was translated from:
\* the registered ones and the one the last call returned
EmittedClasses ==
    { [schema |-> class_dict[i].schema, decl |-> class_dict[i].decl] :
          i \in { j \in DOMAIN class_dict : IsDataClass(class_dict[j].decl) } }
    \cup (IF IsDataClass(last_call.node)
          THEN {[schema |-> last_call.schema, decl |-> last_call.node]} ELSE {})

\* the keywords of the field(...) call of a field, <<>> without such a call
FieldKeywords(f) ==
    IF AnnValue(f) # <<>> /\ AnnValue(f)[1].k = "Call" THEN AnnValue(f)[1].elts
    ELSE <<>>

\* the default values a field declares: at most one
FieldDefaults(f) ==
    IF AnnValue(f) # <<>> /\ AnnValue(f)[1].k # "Call" THEN {AnnValue(f)[1]}
    ELSE { FieldKeywords(f)[i].elts[1] :
              i \in { j \in DOMAIN FieldKeywords(f) :
                         FieldKeywords(f)[j].id = L.default } }

HasDefault(f) == FieldDefaults(f) # {}

\* the entries of the fastclasses_json metadata of a field
FieldMetadata(f) ==
    UNION { SeqToSet(kw.elts[1].elts[1].elts[2].elts) :
              kw \in { k \in SeqToSet(FieldKeywords(f)) : k.id = L.metadata } }

\* the schema key a field is read from: its field_name entry, else its name
SchemaKey(f) ==
    LET renamed == { p \in FieldMetadata(f) :
                        p.elts[1] = Constant(StrVal(L.field_name)) }
    IN IF renamed = {} THEN f.id ELSE (CHOOSE p \in renamed : TRUE).elts[2].val.s

\* position of a key in a sequence of keys: its first occurrence
FirstIndex(keys, key) ==
    CHOOSE i \in DOMAIN keys : keys[i] = key /\ \A j \in 1..(i - 1) : keys[j] # key

\* n underscores
Underscores(n) == [p \in 1..n |-> s_underscore]

\* the fields of a class are those of the properties of its schema
FieldsOfProperties(c) ==
    /\ Len(ClassBody(c.decl)) = Len(c.schema.properties[1])
    /\ { SchemaKey(f) : f \in SeqToSet(ClassBody(c.decl)) }
           = SeqToSet(DictKeys(c.schema.properties[1]))

-----------------------------------------------------------------------------
(* C1 .. C5: the classes the translator emits.                             *)

\* C1: after a top-level class schema with identifier P is added, every
\* property k that is itself a class schema has its class registered under
\* P followed by k with its first letter upper-cased, before the entry of P,
\* and the field of k in P is annotated with that name as a string constant
\* (wrapped in Optional when k is not required).
C1_NestedClassNamedAfterParent ==
    (/\ last_call.op = "add_schema_to_top_level_declaration"
     /\ last_call.err = ""
     /\ IsClassSchema(last_call.schema))
    => \A p \in SeqToSet(last_call.schema.properties[1]) :
          IsClassSchema(p.schema) =>
            LET P == last_call.identifier
                nested == P \o UpperFirst(p.key)
            IN /\ DictHas(class_dict, nested)
               /\ DictHas(class_dict, P)
               /\ DictIndex(class_dict, nested) < DictIndex(class_dict, P)
               /\ \E f \in SeqToSet(ClassBody(DictGet(class_dict, P).decl)) :
                     /\ SchemaKey(f) = p.key
                     /\ AnnAnnotation(f) \in
                          { Constant(StrVal(nested)),
                            Subscript(L.Optional, Constant(StrVal(nested))) }

\* C2: every declaration ever stored in class_dict is still there under its
\* identifier: no identifier has had its declaration replaced.
C2_NoDeclarationReplaced ==
    \A i \in DOMAIN assigned :
        \E j \in DOMAIN class_dict :
            /\ class_dict[j].key = assigned[i].key
            /\ class_dict[j].decl = assigned[i].decl

\* C3: in every emitted class the fields without a default are exactly the
\* fields whose schema key is in `required`, every other field is
\* Optional[...] with default None, and no field with a default precedes a
\* field without one.
C3_RequiredFieldsHaveNoDefault ==
    \A c \in EmittedClasses :
        LET body == ClassBody(c.decl)
            required == SeqToSet(RequiredOf(c.schema))
        IN /\ FieldsOfProperties(c)
           /\ \A i \in DOMAIN body :
                 /\ ~HasDefault(body[i]) <=> SchemaKey(body[i]) \in required
                 /\ HasDefault(body[i]) =>
                      /\ AnnAnnotation(body[i]).k = "Subscript"
                      /\ AnnAnnotation(body[i]).id = L.Optional
                      /\ FieldDefaults(body[i]) = {Constant(NoneVal)}
           /\ \A i, j \in DOMAIN body :
                 (i < j /\ HasDefault(body[i])) => HasDefault(body[j])

\* a class with a required field that is renamed (so it carries a field(...)
\* call without default) and an optional field
C3_Witness ==
    \E c \in EmittedClasses :
        \E f, g \in SeqToSet(ClassBody(c.decl)) :
            /\ ~HasDefault(f) /\ FieldKeywords(f) # <<>>
            /\ HasDefault(g)

\* C4 as stated: within the required fields and within the optional fields,
\* the fields are in the order of their keys in `properties`.
C4_PartitionsInSourceOrder ==
    \A c \in EmittedClasses :
        LET body == ClassBody(c.decl)
            keys == DictKeys(c.schema.properties[1])
        IN \A i, j \in DOMAIN body :
              (i < j /\ HasDefault(body[i]) = HasDefault(body[j]))
              => FirstIndex(keys, SchemaKey(body[i]))
                     < FirstIndex(keys, SchemaKey(body[j]))

\* C4 amended: the optional fields are in the order of their keys in
\* `properties`; the required fields are in the order of the first
\* occurrences of their keys in the `required` list.
C4_RequiredInListOrder ==
    \A c \in EmittedClasses :
        LET body == ClassBody(c.decl)
            keys == DictKeys(c.schema.properties[1])
            required == RequiredOf(c.schema)
        IN /\ FieldsOfProperties(c)
           /\ \A i, j \in DOMAIN body :
               /\ (i < j /\ HasDefault(body[i]) /\ HasDefault(body[j]))
                  => FirstIndex(keys, SchemaKey(body[i]))
                         < FirstIndex(keys, SchemaKey(body[j]))
               /\ (i < j /\ ~HasDefault(body[i]) /\ ~HasDefault(body[j]))
                  => FirstIndex(required, SchemaKey(body[i]))
                         < FirstIndex(required, SchemaKey(body[j]))

\* a class whose two required fields are in the order of `required`, which
\* is the reverse of their order in `properties`
C4_Witness ==
    \E c \in EmittedClasses :
        LET body == ClassBody(c.decl)
            keys == DictKeys(c.schema.properties[1])
        IN \E i, j \in DOMAIN body :
              /\ i < j /\ ~HasDefault(body[i]) /\ ~HasDefault(body[j])
              /\ FirstIndex(keys, SchemaKey(body[j]))
                     < FirstIndex(keys, SchemaKey(body[i]))

\* C5: the field names of a class are pairwise distinct, none is a keyword,
\* and each is its schema key without its leading underscores, followed by
\* the least number of '_' that makes it differ from every earlier field
\* name of the class and from every keyword.
C5_FieldNamesDistinctNonKeyword ==
    \A c \in EmittedClasses :
        LET body == ClassBody(c.decl) IN
        /\ FieldsOfProperties(c)
        /\ \A i, j \in DOMAIN body : body[i].id = body[j].id => i = j
        /\ \A i \in DOMAIN body :
              LET key == SchemaKey(body[i])
                  taken == { body[j].id : j \in 1..(i - 1) } \cup kwlist
              IN /\ body[i].id \notin taken
                 /\ \E m \in 0..Len(key), n \in 0..Len(body[i].id) :
                       /\ \A p \in 1..m : key[p] = s_underscore
                       /\ m < Len(key) => key[m + 1] # s_underscore
                       /\ body[i].id = SubSeq(key, m + 1, Len(key)) \o Underscores(n)
                       /\ \A q \in 0..(n - 1) :
                             SubSeq(key, m + 1, Len(key)) \o Underscores(q) \in taken

\* a class with a field named after an earlier sibling plus '_'
C5_Witness ==
    \E c \in EmittedClasses :
        LET body == ClassBody(c.decl) IN
        \E i, j \in DOMAIN body :
            j < i /\ body[i].id = body[j].id \o <<s_underscore>>

-----------------------------------------------------------------------------
(* C6 .. C9: the module generate emits.                                    *)

\* the ids of the Name nodes of a tree: the names it uses unquoted
RECURSIVE BareNames(_)
BareNames(node) ==
    IF node.k = "Name" THEN {node.id}
    ELSE UNION { BareNames(node.elts[i]) : i \in DOMAIN node.elts }

\* names of the language and of the imported modules
ForeignNames ==
    { L.str, L.int, L.float, L.bool, L.Any, L.JSONMixin, L.Enum,
      L.dataclass, L.dataclass_json, L.field }

\* the names a statement of the module refers to unquoted
UsedNames(stmt) ==
    IF stmt.k = "ImportFrom" THEN {} ELSE BareNames(stmt) \ ForeignNames

\* the name a statement of the module declares
DeclaredName(stmt) == stmt.id

\* a run of generate built its module
Built == pc \in {"built", "opened", "done"}

\* the `_class` constants of the merged definitions, as values
ClassConstantOf(schema) ==
    IF is_object_schema(schema)
    THEN SeqToSet(DictGet(schema.properties[1], L.u_class).schema.const)
    ELSE {}

ClassConstants ==
    { c \in UNION { ClassConstantOf(definitions[i].schema) :
                       i \in DOMAIN definitions } : c.s # <<>> }

\* C6: every name a statement of the emitted module uses unquoted is
\* declared by an earlier statement: a reference to a definition that is
\* declared later, or never, is a string constant.
C6_ForwardReferencesQuoted ==
    Built =>
      \A i \in DOMAIN module_ast.elts :
          \A name \in UsedNames(module_ast.elts[i]) :
              \E j \in 1..(i - 1) : DeclaredName(module_ast.elts[j]) = name

\* C7: class_map has exactly one entry for each distinct non-empty `_class`
\* constant of the definitions, keyed by the constant, and no other entry.
C7_ClassMapComplete ==
    Built =>
      /\ Len(class_map) = Cardinality(ClassConstants)
      /\ \A c \in ClassConstants :
            Cardinality({ i \in DOMAIN class_map : class_map[i].key = c.s }) = 1
      /\ \A i \in DOMAIN class_map :
            \E c \in ClassConstants : c.s = class_map[i].key

\* C8: a `_class` constant that two or more definitions declare is bound by
\* class_map to the identifier of the first of them in the order of the
\* merged definitions.
C8_FirstWriterWins ==
    Built =>
      \A c \in ClassConstants :
          LET declaring == { i \in DOMAIN definitions :
                                c \in ClassConstantOf(definitions[i].schema) }
              first == CHOOSE i \in declaring : \A j \in declaring : i <= j
          IN Cardinality(declaring) >= 2 =>
               \E m \in DOMAIN class_map :
                   /\ class_map[m].key = c.s
                   /\ class_map[m].value = extract_id(definitions[first].schema.id[1])

\* C9: all runs of generate on the same schemas wrote the same module.
C9_RunsIdentical ==
    \A i, j \in DOMAIN outputs : outputs[i] = outputs[j]

-----------------------------------------------------------------------------
(* C10: the dispatch table of schema_to_ast_node.                          *)

LiteralOf(value) == Subscript(L.Literal, Constant(value))

\* Union[...] of annotations; Union[X] is X
UnionAnnotation(nodes) ==
    IF Len(nodes) = 1 THEN nodes[1] ELSE Subscript(L.Union, Tuple(nodes))

\* the annotation of a sub-schema of the sampled dispatch inputs: a string
\* type or a reference
LeafAnnotation(schema) ==
    IF schema.type = "string" THEN Name(L.str)
    ELSE Constant(StrVal(extract_ref(schema.ref[1])))

LeafAnnotations(schemas_) ==
    [i \in DOMAIN schemas_ |-> LeafAnnotation(schemas_[i])]

PrimitiveName(type) ==
    CASE type = "string" -> Name(L.str) [] type = "number" -> Name(L.float)
      [] type = "integer" -> Name(L.int) [] OTHER -> Name(L.bool)

\* the rows of the table that yield an annotation: all but the class row
\* and the failing row (number with enum, at any depth)
InAnnotationRow(schema) ==
    /\ ~ReachesNumberEnum(schema)
    /\ ~IsClassSchema(schema)

\* the annotation of the first matching row
RowAnnotation(schema, is_top_level) ==
    IF schema.type \in {"string", "number", "integer", "boolean"} THEN
        IF schema.enum = <<>> THEN PrimitiveName(schema.type)
        ELSE UnionAnnotation([i \in DOMAIN schema.enum[1] |->
                                 LiteralOf(schema.enum[1][i])])
    ELSE IF schema.type = "null" THEN LiteralOf(NoneVal)
    ELSE IF schema.type = "object" THEN
        IF schema.properties # <<>>
        THEN Subscript(L.Dict, Tuple(<<Name(L.str), Name(L.Any)>>))
        ELSE IF schema.patternProperties # <<>>
        THEN Subscript(L.Dict,
                 Tuple(<<Name(L.str),
                         UnionAnnotation(LeafAnnotations(
                             [i \in DOMAIN schema.patternProperties[1] |->
                                 schema.patternProperties[1][i].schema]))>>))
        ELSE Name(L.Any)
    ELSE IF schema.type = "array" THEN
        IF schema.items # <<>>
        THEN Subscript(L.List, LeafAnnotation(schema.items[1]))
        ELSE Subscript(L.List, Name(L.Any))
    ELSE IF schema.const # <<>> /\ schema.const[1].t \in {"str", "int", "float"}
    THEN LiteralOf(schema.const[1])
    ELSE IF schema.ref # <<>>
    THEN IF is_top_level THEN Name(extract_ref(schema.ref[1]))
         ELSE Constant(StrVal(extract_ref(schema.ref[1])))
    ELSE IF schema.oneOf # <<>>
    THEN UnionAnnotation(LeafAnnotations(schema.oneOf[1]))
    ELSE Name(L.Any)

\* C10: for every schema of an annotation row, schema_to_ast_node returns
\* the annotation of the first matching row of the table and registers no
\* class; a present `type` is matched before const, $ref and oneOf.
C10_DispatchTable ==
    (/\ last_call.op = "schema_to_ast_node"
     /\ InAnnotationRow(last_call.schema))
    => /\ last_call.err = ""
       /\ last_call.node = RowAnnotation(last_call.schema, last_call.is_top_level)
       /\ class_dict = <<>>

-----------------------------------------------------------------------------
(* C11: number enums.                                                      *)

\* the last call left no declaration for its schema or for a number enum
NothingRegisteredForIt ==
    /\ ~DictHas(class_dict, last_call.identifier)
    /\ \A i \in DOMAIN class_dict : ~IsNumberEnum(class_dict[i].schema)

\* the last call took the Enum class branch of
\* add_schema_to_top_level_declaration
TookEnumClassBranch ==
    /\ last_call.op = "add_schema_to_top_level_declaration"
    /\ last_call.schema.enum # <<>>
    /\ last_call.schema.enumDescriptions # <<>>

\* C11 as stated: a call whose schema is, or holds, a number enum fails and
\* registers nothing for it, top-level or nested, with enumDescriptions or
\* without.
C11_NumberEnumAlwaysFails ==
    (last_call.n = 1 /\ ReachesNumberEnum(last_call.schema))
    => (last_call.err # "" /\ NothingRegisteredForIt)

\* C11 amended: a call whose schema is, or holds, a number enum fails and
\* registers nothing for it, except that a top-level schema with both enum
\* and enumDescriptions is declared as an Enum class whatever its type.
C11_NumberEnumFailsUnlessEnumClass ==
    (last_call.n = 1 /\ ReachesNumberEnum(last_call.schema))
    => IF TookEnumClassBranch
       THEN /\ last_call.err = ""
            /\ DictHas(class_dict, last_call.identifier)
            /\ ClassBases(DictGet(class_dict, last_call.identifier).decl)
                   = <<Name(L.Enum)>>
       ELSE last_call.err # "" /\ NothingRegisteredForIt

\* a class schema whose second property is a number enum was added: the
\* call failed after the class of the first property was registered
C11_Witness ==
    /\ last_call.n = 1
    /\ last_call.op = "add_schema_to_top_level_declaration"
    /\ IsClassSchema(last_call.schema)
    /\ ReachesNumberEnum(last_call.schema)
    /\ last_call.err # ""
    /\ class_dict # <<>>

-----------------------------------------------------------------------------
(* C12: the _missing_ classmethod of an Enum class.                        *)

\* @classmethod def _missing_(cls, value): return <cls>.<member>
MissingMethod(cls, member) ==
    Node("FunctionDef", <<"_","m","i","s","s","i","n","g","_">>, NoVal,
         << Name(<<"c","l","a","s","s","m","e","t","h","o","d">>),
            Node("Return", <<>>, NoVal,
                 <<Node("Attribute", member, NoVal, <<Name(cls)>>)>>) >>)

\* C12: the Enum class declared for a top-level schema with enum and
\* enumDescriptions holds, after its members, the classmethod _missing_
\* returning its first member.
C12_EnumHasMissingMethod ==
    (/\ last_call.op = "add_schema_to_top_level_declaration"
     /\ last_call.err = ""
     /\ last_call.schema.enum # <<>>
     /\ last_call.schema.enumDescriptions # <<>>)
    => LET body == ClassBody(last_call.node) IN
       /\ Len(body) >= 2
       /\ \A i \in 1..(Len(body) - 1) : body[i].k = "Assign"
       /\ body[Len(body)] = MissingMethod(last_call.identifier, body[1].id)

-----------------------------------------------------------------------------
(* C13: the emitted to_object.                                             *)

\* what C13 says a call returns
PassThroughOrFromDict(obj, cm) ==
    IF obj.t = "dict" /\ obj.class # <<>> /\ InClassMapKeys(obj.class[1], cm)
    THEN Returned(FromDict(DictGet(cm, obj.class[1].s).value, obj))
    ELSE Returned(obj)

\* C13: to_object(obj) returns class_map[obj['_class']].from_dict(obj) when
\* obj is a dict whose '_class' is a key of class_map and obj itself in
\* every other case, for the to_object of either generator.
C13_ToObjectPassesThrough ==
    decoded.n \in {1, 2}
    => decoded.result = <<PassThroughOrFromDict(decoded.obj, decoded.class_map)>>

-----------------------------------------------------------------------------
(* C14 .. C16: sketch_file/file.py.                                        *)

\* the last call is a from_file of the path the call before it wrote
ReadBack ==
    /\ file_call.op = "from_file"
    /\ file_call.prev # <<>>
    /\ file_call.prev[1].op = "to_file"
    /\ file_call.prev[1].err = ""
    /\ file_call.prev[1].path = file_call.path

\* C14: to_file of a SketchFile that from_file returned completes, and a
\* from_file of the written path then returns equal contents: document
\* (with its pages, in order), meta, user and workspace.
C14_WriteReadPreserves ==
    /\ (file_call.op = "to_file" /\ file_call.loaded) => file_call.err = ""
    /\ (ReadBack /\ file_call.loaded)
           => /\ file_call.err = ""
              /\ sketch.contents = file_call.prev[1].held.contents

\* a to_file(obj, keep_static_file=True) call whose target has a directory
\* part and whose obj.filepath held an archive or nothing before the call
KeepCall ==
    /\ file_call.op = "to_file"
    /\ file_call.keep
    /\ dirname(file_call.path) # <<>>
    /\ FileAt(file_call.before, file_call.held.filepath).kind \in {"absent", "zip"}

Names(members) == { members[i].name : i \in DOMAIN members }
Occurrences(members, name) ==
    Cardinality({ i \in DOMAIN members : members[i].name = name })

\* C15: to_file with keep_static_file=True completes and leaves an archive
\* whose member names are the newly written names together with the names
\* of the archive that was at obj.filepath before the call (none when there
\* was no such archive); a name in both holds the new content, once.
C15_KeepStaticIsUnion ==
    KeepCall =>
        /\ file_call.err = ""
        /\ FileAt(disk, file_call.path).kind = "zip"
        /\ Names(FileAt(disk, file_call.path).members)
               = Names(NewMembers(file_call.held.contents[1]))
                 \cup Names(FileAt(file_call.before, file_call.held.filepath).members)
        /\ \A name \in Names(NewMembers(file_call.held.contents[1])) :
               /\ ZipRead(FileAt(disk, file_call.path).members, name)
                      = ZipRead(NewMembers(file_call.held.contents[1]), name)
               /\ HasMember(FileAt(file_call.before, file_call.held.filepath).members, name)
                      => Occurrences(FileAt(disk, file_call.path).members, name) = 1

\* the archive a from_file call was pointed at
Target == FileAt(file_call.before, file_call.path)
DocumentOf(file) == Loads(ZipRead(file.members, F.document_json))
PagesValue(file) == DictGet(DocumentOf(file).items, F.pages).value

\* the `pages` value of document.json is something other than a list
PagesNotAList ==
    /\ Target.kind = "zip"
    /\ HasMember(Target.members, F.document_json)
    /\ DocumentOf(Target).t = "dict"
    /\ DictHas(DocumentOf(Target).items, F.pages)
    /\ PagesValue(Target).t # "list"

\* a page entry refers to a pages/<uuid>.json member the archive lacks
PageMemberAbsent ==
    /\ Target.kind = "zip"
    /\ HasMember(Target.members, F.document_json)
    /\ DocumentOf(Target).t = "dict"
    /\ DictHas(DocumentOf(Target).items, F.pages)
    /\ PagesValue(Target).t = "list"
    /\ \E i \in DOMAIN PagesValue(Target).items :
          /\ PagesValue(Target).items[i].t = "dict"
          /\ DictHas(PagesValue(Target).items[i].items, F.u_ref)
          /\ ~HasMember(Target.members,
                        DictGet(PagesValue(Target).items[i].items, F.u_ref).value.s \o F.json)

\* C16: from_file raises, and returns no SketchFile, when the target is not
\* a zip file, document.json is absent, `pages` is not a list (an empty
\* object and a string included), or a referenced page member is absent.
C16_FromFileRejects ==
    (/\ file_call.op = "from_file"
     /\ \/ Target.kind = "file"
        \/ Target.kind = "zip" /\ ~HasMember(Target.members, F.document_json)
        \/ PagesNotAList
        \/ PageMemberAbsent)
    => /\ file_call.err # ""
       /\ sketch = file_call.held

-----------------------------------------------------------------------------
(* C17: the imports of the emitted module against the names it uses.       *)

\* the names a tree refers to unquoted: Name nodes, the heads of
\* subscripts and calls, and Optional in the signature of to_object
\* (`def to_object(obj: 'Any') -> Optional['Any']`, whose 'Any' is quoted)
RECURSIVE ReferredNames(_)
ReferredNames(node) ==
    (IF node.k \in {"Name", "Subscript", "Call"} THEN {node.id}
     ELSE IF node.k = "FunctionDef" THEN {L.Optional}
     ELSE {})
    \cup UNION { ReferredNames(node.elts[i]) : i \in DOMAIN node.elts }

\* the symbols a module can only get by importing them
ForeignSymbols ==
    { L.Optional, L.Union, L.Literal, L.List, L.Dict, L.Any, L.Type, L.Enum,
      L.dataclass, L.field, L.dataclass_json, L.JSONMixin }

ImportedSymbols ==
    UNION { { module_ast.elts[i].elts[j].id : j \in DOMAIN module_ast.elts[i].elts } :
               i \in { i \in DOMAIN module_ast.elts :
                          module_ast.elts[i].k = "ImportFrom" } }

\* the foreign symbols the statements of the module use
UsedSymbols ==
    UNION { ReferredNames(module_ast.elts[i]) :
               i \in { i \in DOMAIN module_ast.elts :
                          module_ast.elts[i].k # "ImportFrom" } }
    \cap ForeignSymbols

\* C17: the emitted module imports exactly the foreign symbols it uses,
\* to_object and the class_map annotation included: none is missing and
\* none is imported without a use.
C17_ImportsAreExactlyUsed ==
    Built => ImportedSymbols = UsedSymbols

-----------------------------------------------------------------------------
(* C18: the target file of generate.                                       *)

\* C18: the target is opened only once the module is built and serialized,
\* and a run that fails leaves at the path what was there before the run:
\* while the text is not yet serialized, and after a failure, the target
\* holds what it held when the run began.
C18_NoPartialOutput ==
    pc \in {"built", "opened", "failed"} => target_file.content = target_file.before

-----------------------------------------------------------------------------
(* C19: the temporary directory of get_package_tarball.                    *)

\* C19: the temporary directory exists while the caller's block runs, all
\* five schema files have been read when get_schemas returns, and once the
\* context is left (by return, by a download or unpack failure, or by an
\* exception of the block) no temporary directory is left behind.
C19_TempDirScoped ==
    /\ fetch.pc = "in_block" => fetch.temp_dir = "exists"
    /\ fetch.pc \in {"returned", "raised"} => fetch.temp_dir # "exists"
    /\ fetch.pc = "returned" => fetch.read = SchemaFiles
    /\ fetch.temp_dir = "none" =>
           fetch.pc \in {"idle", "fetched"} \/ fetch.err \in {"ValueError", "KeyError"}

\* an exception raised inside the caller's block, after some files were read
C19_Witness ==
    /\ fetch.pc = "raised"
    /\ fetch.err = "FileNotFoundError"
    /\ Len(fetch.read) \in 1..4
    /\ fetch.temp_dir = "removed"

-----------------------------------------------------------------------------
(* C20: the decoders insert_encoder_and_decoder_to_class attaches.         *)

\* the fields of the classes of the emitted module
ModuleFields ==
    UNION { { ClassBody(module_ast.elts[i])[j] :
                 j \in { j \in DOMAIN ClassBody(module_ast.elts[i]) :
                            ClassBody(module_ast.elts[i])[j].k = "AnnAssign" } } :
               i \in { i \in DOMAIN module_ast.elts :
                          module_ast.elts[i].k = "ClassDef" } }

\* the values stored under 'decoder' in the fastclasses_json metadata of a
\* field(...) call
DecodersOfPairs(pairs) ==
    { pairs[n].elts[2] :
          n \in { n \in DOMAIN pairs :
                     /\ pairs[n].elts[1].k = "Constant"
                     /\ pairs[n].elts[1].val = StrVal(L.decoder) } }

DecodersOfCall(call) ==
    UNION { UNION { DecodersOfPairs(call.elts[i].elts[1].elts[m].elts[2].elts) :
                       m \in { m \in DOMAIN call.elts[i].elts[1].elts :
                                  IsFastclassesPair(call.elts[i].elts[1].elts[m]) } } :
               i \in { i \in DOMAIN call.elts :
                          /\ call.elts[i].id = L.metadata
                          /\ call.elts[i].elts[1].k = "Dict" } }

DecodersOf(field) ==
    IF AnnValue(field) # <<>> /\ AnnValue(field)[1].k = "Call"
    THEN DecodersOfCall(AnnValue(field)[1])
    ELSE {}

\* what an annotation resolves to: a union ("object"), a list of a union
\* ("list"), either of them possibly inside Optional, or neither ("none")
RECURSIVE UnionBearing(_)
UnionBearing(annotation) ==
    IF annotation.k # "Subscript" THEN "none"
    ELSE IF annotation.id = L.Union THEN "object"
    ELSE IF annotation.id = L.Optional THEN UnionBearing(annotation.elts[1])
    ELSE IF annotation.id = L.List /\ UnionBearing(annotation.elts[1]) = "object"
    THEN "list"
    ELSE "none"

\* C20: a field receives a decoder exactly when its annotation resolves to
\* a union directly, inside Optional or inside List: to_object for a union,
\* the list comprehension over to_object for a list of a union, and no
\* decoder for any other field.
C20_DecodersOnUnionFields ==
    pc = "done" =>
      \A field \in ModuleFields :
          DecodersOf(field) =
              CASE UnionBearing(AnnAnnotation(field)) = "object" -> {to_object_call}
                [] UnionBearing(AnnAnnotation(field)) = "list" -> {list_to_object_lambda}
                [] OTHER -> {}

-----------------------------------------------------------------------------
(* C21: what insert_encoder_and_decoder_to_class leaves alone.             *)

\* the declarations as the translator registered them, before the wiring
Unwired == TranslateDefinitions(NewBuilder, all_definitions).class_dict

\* the number of `decoder` entries of a field
DecoderEntries(f) ==
    Cardinality({ p \in FieldMetadata(f) : p.elts[1] = Constant(StrVal(L.decoder)) })

\* the entries of the metadata of a field other than `decoder`
OtherEntries(f) ==
    { p \in FieldMetadata(f) : p.elts[1] # Constant(StrVal(L.decoder)) }

Wired(f) == check_ann_assign_contains_union(f) # "NOT_UNION"

\* a field after the wiring against the same field before it
FieldKept(before, after) ==
    /\ after.id = before.id
    /\ AnnAnnotation(after) = AnnAnnotation(before)
    /\ IF Wired(before)
       THEN /\ FieldDefaults(after) = FieldDefaults(before)
            /\ OtherEntries(after) = FieldMetadata(before)
            /\ DecoderEntries(after) = 1
       ELSE after = before

DeclarationKept(before, after) ==
    IF before.k # "ClassDef" THEN after = before
    ELSE /\ after.k = "ClassDef" /\ after.id = before.id
         /\ ClassBases(after) = ClassBases(before)
         /\ after.elts[2] = before.elts[2]
         /\ Len(ClassBody(after)) = Len(ClassBody(before))
         /\ \A j \in DOMAIN ClassBody(before) :
               IF ClassBody(before)[j].k = "AnnAssign"
               THEN FieldKept(ClassBody(before)[j], ClassBody(after)[j])
               ELSE ClassBody(after)[j] = ClassBody(before)[j]

WiringKeeps(before) ==
    /\ Len(class_dict) = Len(before)
    /\ \A i \in DOMAIN before :
          /\ class_dict[i].key = before[i].key
          /\ DeclarationKept(before[i].decl, class_dict[i].decl)

\* C21: the wiring only adds the decoder: a wired field keeps its default
\* (as the `default` of its field call), its field_name entry, its
\* annotation and its position and has exactly one decoder entry; fields
\* without a union annotation, enums and aliases are unchanged.
C21_WiringOnlyAddsDecoder ==
    Built => WiringKeeps(Unwired)

\* a wired field that had a default and a field_name entry
C21_Witness ==
    /\ Built
    /\ \E i \in DOMAIN class_dict :
          /\ class_dict[i].decl.k = "ClassDef"
          /\ \E f \in SeqToSet(ClassBody(class_dict[i].decl)) :
                /\ f.k = "AnnAssign" /\ Wired(f)
                /\ DecoderEntries(f) = 1
                /\ FieldDefaults(f) = {Constant(NoneVal)}
                /\ OtherEntries(f) # {}

-----------------------------------------------------------------------------
(* C22: the order of the module build() returns.                           *)

\* the body is the imports of the registry, to_object, the registered
\* declarations and class_map, each group in insertion order
BodyInBuildOrder ==
    module_ast.elts =
        [i \in DOMAIN import_statements |-> ImportNode(import_statements[i])]
        \o <<to_object_func>>
        \o [i \in DOMAIN class_dict |-> class_dict[i].decl]
        \o <<build_class_map(class_map)>>

\* position of the first statement of the module that declares `name`, 0
\* when none does
DeclaredAt(name) ==
    IF \E i \in DOMAIN module_ast.elts :
          module_ast.elts[i].k # "ImportFrom" /\ module_ast.elts[i].id = name
    THEN CHOOSE i \in DOMAIN module_ast.elts :
            /\ module_ast.elts[i].k # "ImportFrom" /\ module_ast.elts[i].id = name
            /\ \A j \in 1..(i - 1) :
                  module_ast.elts[j].k = "ImportFrom" \/ module_ast.elts[j].id # name
    ELSE 0

ClassMapAfterItsClasses ==
    \A i \in DOMAIN class_map :
        /\ DeclaredAt(class_map[i].value) > 0
        /\ DeclaredAt(class_map[i].value) < Len(module_ast.elts)

\* the class of every property that is itself a class schema stands before
\* the class that holds the property
NestedBeforeReferrer ==
    \A i \in DOMAIN class_dict :
        IsClassSchema(class_dict[i].schema) /\ IsDataClass(class_dict[i].decl) =>
            \A p \in SeqToSet(class_dict[i].schema.properties[1]) :
                IsClassSchema(p.schema) =>
                    \E j \in 1..(i - 1) :
                        /\ class_dict[j].schema = p.schema
                        /\ IsDataClass(class_dict[j].decl)

\* C22: the module is the imports in registry order, to_object, the
\* registered declarations in insertion order and class_map, so class_map
\* follows every class it names and a nested class precedes the class that
\* refers to it.
C22_ModuleOrder ==
    Built => BodyInBuildOrder /\ ClassMapAfterItsClasses /\ NestedBeforeReferrer

-----------------------------------------------------------------------------
(* C23: the Enum class of a schema with enum and enumDescriptions.         *)

Min(a, b) == IF a < b THEN a ELSE b

\* the (description, value) pairs zip gives
PairCount(schema) == Min(Len(schema.enumDescriptions[1]), Len(schema.enum[1]))

\* `name` is `base` followed by underscores, one for each collision with an
\* earlier member name or a keyword
NamedFrom(name, base, earlier) ==
    \E n \in 0..Len(name) :
        /\ name = base \o Underscores(n)
        /\ \A m \in 0..(n - 1) : (base \o Underscores(m)) \in (earlier \cup kwlist)

\* the members of an Enum class against the schema it was emitted for;
\* Base(description) is the name a member gets when nothing collides
EnumMembersFrom(body, schema, Base(_)) ==
    /\ Len(body) = PairCount(schema)
    /\ \A i \in DOMAIN body :
          /\ body[i].k = "Assign"
          /\ body[i].elts[1] = Constant(schema.enum[1][i])
          /\ body[i].id \notin kwlist
          /\ \A j \in 1..(i - 1) : body[j].id # body[i].id
          /\ NamedFrom(body[i].id, Base(schema.enumDescriptions[1][i]),
                       { body[j].id : j \in 1..(i - 1) })

\* the call registered and returned an Enum class under the `$id`
EnumClassRegistered ==
    /\ last_call.err = ""
    /\ DictHas(class_dict, last_call.identifier)
    /\ DictGet(class_dict, last_call.identifier).decl = last_call.node
    /\ last_call.node.k = "ClassDef"
    /\ last_call.node.id = last_call.identifier
    /\ ClassBases(last_call.node) = <<Name(L.Enum)>>

PascalWord(description) == DropNonWord(pascalize(description))
PascalWordStripped(description) == StripUnderscores(DropNonWord(pascalize(description)))

\* C23 as stated: one member per (description, value) pair, in order, bound
\* to its value; names pairwise distinct non-keywords: the PascalCased
\* description without non-word characters, with '_' appended on collision;
\* the class is registered under the `$id`.
C23_EnumMembersPascalCased ==
    TookEnumClassBranch =>
        /\ EnumClassRegistered
        /\ EnumMembersFrom(ClassBody(last_call.node), last_call.schema, PascalWord)

\* C23, amended: the leading underscores of the PascalCased description are
\* stripped as well, before collisions are resolved.
C23_EnumMembersFromFieldName ==
    TookEnumClassBranch =>
        /\ EnumClassRegistered
        /\ EnumMembersFrom(ClassBody(last_call.node), last_call.schema,
                           PascalWordStripped)

\* two members, the second renamed after a collision with the first
C23_Witness ==
    /\ TookEnumClassBranch
    /\ Len(ClassBody(last_call.node)) = 2
    /\ ClassBody(last_call.node)[2].id
           = ClassBody(last_call.node)[1].id \o <<s_underscore>>

-----------------------------------------------------------------------------
(* C29: generate_field_name on keys that are only underscores.             *)

\* the class declarations a state holds: the registered ones and the one
\* the last call returned
ClassDeclarations ==
    { class_dict[i].decl : i \in { j \in DOMAIN class_dict :
                                       class_dict[j].decl.k = "ClassDef" } }
    \cup (IF last_call.node.k = "ClassDef" THEN {last_call.node} ELSE {})

\* C29: no field of an emitted data class and no member of an emitted Enum
\* class has the empty name (every sampled key and every sampled description,
\* PascalCased and without non-word characters, is non-empty).
C29_NoEmptyName ==
    \A c \in ClassDeclarations :
        \A i \in DOMAIN ClassBody(c) :
            ClassBody(c)[i].k \in {"AnnAssign", "Assign"} => ClassBody(c)[i].id # <<>>

-----------------------------------------------------------------------------
(* C27: generate on definitions without a layer, a group or an object.     *)

\* the identifiers of the four umbrella declarations
UmbrellaNames == { L.AnyLayer, L.AnyGroup, L.AnyObject, L.ClassValue }

\* C27: no run of generate raises, for no set of definitions, and a built
\* module declares AnyLayer, AnyGroup, AnyObject and ClassValue.
C27_GenerateCompletes ==
    /\ pc # "failed"
    /\ Built => \A name \in UmbrellaNames :
                   /\ DictHas(class_dict, name)
                   /\ \E i \in DOMAIN module_ast.elts :
                          module_ast.elts[i] = DictGet(class_dict, name).decl

-----------------------------------------------------------------------------
(* C25: the classes class_map names.                                       *)

\* the module declares the data class `name`
DeclaresDataClass(name) ==
    /\ DictHas(class_dict, name)
    /\ IsDataClass(DictGet(class_dict, name).decl)
    /\ \E i \in DOMAIN module_ast.elts :
           module_ast.elts[i] = DictGet(class_dict, name).decl

\* C25: every value of the emitted class_map is the identifier of a JSONMixin
\* class the module declares, not of an alias nor of an Enum class.
C25_ClassMapNamesDataClasses ==
    Built => \A m \in DOMAIN class_map : DeclaresDataClass(class_map[m].value)

-----------------------------------------------------------------------------
(* C24: the archives a call of from_file or to_file opens.                 *)

\* the call got as far as opening its target archive
ReachedOpen ==
    \/ /\ file_call.op = "from_file"
       /\ FileAt(file_call.before, file_call.path).kind = "zip"
    \/ /\ file_call.op = "to_file"
       /\ dirname(file_call.path) # <<>>

\* C24: when a call of from_file or to_file has returned or raised, every
\* archive it opened is closed, and it opened its target archive exactly
\* once (a call that raises before it reaches the archive opens none).
C24_ArchivesClosed ==
    file_call.op \in {"from_file", "to_file"} =>
        /\ \A i \in DOMAIN file_call.zips : file_call.zips[i].closed
        /\ Cardinality({ i \in DOMAIN file_call.zips :
                            file_call.zips[i].file = "target" })
             = (IF ReachedOpen THEN 1 ELSE 0)

-----------------------------------------------------------------------------
(* C26: to_file with keep_static_file after entries were removed.          *)

\* the last call is to_file(obj, keep_static_file=True) of an object that the
\* call before it loaded from obj.filepath and that has since only lost
\* pages or workspace entries, and it completed
WroteAfterRemoval ==
    /\ file_call.op = "to_file" /\ file_call.keep /\ file_call.err = ""
    /\ file_call.path = file_call.held.filepath
    /\ file_call.prev # <<>>
    /\ file_call.prev[1].op = "from_file" /\ file_call.prev[1].err = ""
    /\ file_call.prev[1].path = file_call.held.filepath
    /\ file_call.held_edits # <<>>
    /\ \A i \in DOMAIN file_call.held_edits :
           file_call.held_edits[i] \in {"remove_page", "remove_workspace"}

\* the names pages/<uuid>.json of the pages of an object
PageMemberNames(obj) == Names(PageMembers(PagesOf(obj.contents[1].document)))

\* C26: a from_file after such a call returns the workspace entries and the
\* pages the object had at the call, and the archive holds no pages/ member
\* but those of these pages.
C26_RemovedStayRemoved ==
    WroteAfterRemoval =>
        /\ from_file(disk, file_call.path).err = ""
        /\ from_file(disk, file_call.path).obj.contents[1].workspace
               = file_call.held.contents[1].workspace
        /\ PagesOf(from_file(disk, file_call.path).obj.contents[1].document)
               = PagesOf(file_call.held.contents[1].document)
        /\ { n \in Names(FileAt(disk, file_call.path).members) :
                 StartsWith(n, F.pages \o <<"/">>) }
               = PageMemberNames(file_call.held)

-----------------------------------------------------------------------------
(* C28: SketchFile.do_objectID.                                            *)

\* C28: whatever reads of do_objectID and changes of the pages came before,
\* a read of do_objectID gives the XOR of the UUIDs of the pages the object
\* holds now.
C28_IdIsXorOfPages ==
    sketch # NoSketch =>
        do_objectID(sketch).value
            = UuidHex(XorPages(PagesOf(sketch.contents[1].document), 0), UuidDigits)

====
